---------------------------- MODULE Spec2Model ----------------------------
(***************************************************************************)
(* Voice-to-CRM (src/voice/voice-to-crm.py): a transcription is classified, *)
(* its account is resolved against a directory merged from three sources,  *)
(* a contact and a summary are extracted, and the record is posted to the   *)
(* cal-proxy.                                                               *)
(*                                                                          *)
(* A Python str is a sequence of one-character strings.  The alphabet is    *)
(* the ASCII letters, digits, the space and the punctuation that occurs in  *)
(* the program's literals; every text is far shorter than the 200           *)
(* characters at which difflib's autojunk heuristic starts.                 *)
(***************************************************************************)
EXTENDS Integers, Sequences, FiniteSets, TLC

(***************************************************************************)
(* Characters                                                              *)
(***************************************************************************)
Uppers == <<"A","B","C","D","E","F","G","H","I","J","K","L","M",
            "N","O","P","Q","R","S","T","U","V","W","X","Y","Z">>

Lowers == <<"a","b","c","d","e","f","g","h","i","j","k","l","m",
            "n","o","p","q","r","s","t","u","v","w","x","y","z">>

Digits == <<"0","1","2","3","4","5","6","7","8","9">>

\* The characters in code point order: Python compares str by code point.
CodeOrder == <<" ", "'", "(", ")", "+", ",", "-", ".">> \o Digits \o Uppers
             \o <<"_">> \o Lowers

UpperSet == {Uppers[i] : i \in DOMAIN Uppers}

LowerSet == {Lowers[i] : i \in DOMAIN Lowers}

\* c.isupper()
IsUpper(c) == c \in UpperSet

\* c.islower(), the regular expression class [a-z]
IsLower(c) == c \in LowerSet

\* \s of the re module and str.isspace(), within the alphabet
IsSpace(c) == c = " "

\* \w of the re module: letters, digits and the underscore
IsWordChar(c) == c \in UpperSet \cup LowerSet \cup {Digits[i] : i \in DOMAIN Digits} \cup {"_"}

LowerTable == [c \in UpperSet |-> Lowers[CHOOSE i \in DOMAIN Uppers : Uppers[i] = c]]

UpperTable == [c \in LowerSet |-> Uppers[CHOOSE i \in DOMAIN Lowers : Lowers[i] = c]]

OrdTable == [c \in {CodeOrder[i] : i \in DOMAIN CodeOrder} |->
                CHOOSE i \in DOMAIN CodeOrder : CodeOrder[i] = c]

LowerChar(c) == IF c \in UpperSet THEN LowerTable[c] ELSE c

UpperChar(c) == IF c \in LowerSet THEN UpperTable[c] ELSE c

(***************************************************************************)
(* str methods                                                             *)
(***************************************************************************)
\* s.lower()
lower(s) == << >> \o [i \in 1..Len(s) |-> LowerChar(s[i])]

\* s[i-1:], 1-based
Drop(s, i) == SubSeq(s, i, Len(s))

\* s[i-1:i-1+len(lit)] == lit
MatchAt(s, i, lit) == /\ i >= 1
                      /\ i + Len(lit) - 1 <= Len(s)
                      /\ \A k \in 1..Len(lit) : s[i + k - 1] = lit[k]

\* sub in s
Contains(sub, s) == \E i \in 1..(Len(s) - Len(sub) + 1) : SubSeq(s, i, i + Len(sub) - 1) = sub

\* s.startswith(prefix)
startswith(s, prefix) == MatchAt(s, 1, prefix)

\* The number of whitespace characters of s from position i on.
RECURSIVE SpaceRun(_, _)
SpaceRun(s, i) == IF i <= Len(s) /\ IsSpace(s[i]) THEN 1 + SpaceRun(s, i + 1) ELSE 0

\* The number of whitespace characters of s that end just before position i.
RECURSIVE SpaceRunBack(_, _)
SpaceRunBack(s, i) == IF i > 1 /\ IsSpace(s[i - 1]) THEN 1 + SpaceRunBack(s, i - 1) ELSE 0

\* The number of non-whitespace characters of s from position i on.
RECURSIVE WordRun(_, _)
WordRun(s, i) == IF i <= Len(s) /\ ~IsSpace(s[i]) THEN 1 + WordRun(s, i + 1) ELSE 0

\* s.strip()
strip(s) == LET lead  == SpaceRun(s, 1)
                trail == SpaceRunBack(s, Len(s) + 1)
            IN IF lead = Len(s) THEN << >> ELSE SubSeq(s, lead + 1, Len(s) - trail)

\* s.split(): the maximal runs of non-whitespace characters, in order
RECURSIVE SplitFrom(_, _)
SplitFrom(s, i) == LET b == i + SpaceRun(s, i)
                       n == WordRun(s, b)
                   IN IF b > Len(s) THEN << >>
                      ELSE <<SubSeq(s, b, b + n - 1)>> \o SplitFrom(s, b + n)

split(s) == SplitFrom(s, 1)

\* " ".join(words)
RECURSIVE join(_)
join(words) == IF words = << >> THEN << >>
               ELSE IF Len(words) = 1 THEN words[1]
               ELSE words[1] \o <<" ">> \o join(Tail(words))

\* s.replace(old, new) for a non-empty old: every non-overlapping occurrence,
\* left to right
RECURSIVE replace(_, _, _)
replace(s, old, new) ==
    LET at == {i \in 1..(Len(s) - Len(old) + 1) : MatchAt(s, i, old)}
    IN IF at = {} THEN s
       ELSE LET i == CHOOSE x \in at : \A y \in at : x <= y
            IN SubSeq(s, 1, i - 1) \o new \o replace(Drop(s, i + Len(old)), old, new)

\* a < b for str: lexicographic by code point
RECURSIVE StrLess(_, _)
StrLess(a, b) == IF b = << >> THEN FALSE
                 ELSE IF a = << >> THEN TRUE
                 ELSE IF a[1] = b[1] THEN StrLess(Tail(a), Tail(b))
                 ELSE OrdTable[a[1]] < OrdTable[b[1]]

\* \b at position i of s: between s[i-1] and s[i] exactly one is a word character
WordBoundary(s, i) == LET before == i > 1 /\ i - 1 <= Len(s) /\ IsWordChar(s[i - 1])
                          after  == i >= 1 /\ i <= Len(s) /\ IsWordChar(s[i])
                      IN before # after

(***************************************************************************)
(* dict: insertion-ordered, a sequence of <<key, value>> pairs.            *)
(***************************************************************************)
DictKeys(d) == [i \in 1..Len(d) |-> d[i][1]]

DictValues(d) == [i \in 1..Len(d) |-> d[i][2]]

DictHas(d, k) == \E i \in 1..Len(d) : d[i][1] = k

DictGet(d, k) == d[CHOOSE i \in 1..Len(d) : d[i][1] = k][2]

\* Fault: d.setdefault(k, v), a key keeps the value assigned to it first.
SetDefault(d, entries) ==
    LET all    == d \o entries
        IsFirst(i) == \A j \in 1..(i - 1) : all[j][1] # all[i][1]
        order  == SelectSeq([i \in 1..Len(all) |-> i], IsFirst)
    IN [n \in 1..Len(order) |-> all[order[n]]]

\* Two runs of assignments one after the other: keys in the order of their
\* first assignment, held the value each key holds at the end.
Then(a, b) ==
    [keys |-> a.keys \o SelectSeq(b.keys, LAMBDA k : k \notin DOMAIN a.held),
     held |-> b.held @@ a.held]

\* The assignments d[k] = v for the <<k, v>> pairs all[lo..hi], in order.
RECURSIVE Assigned(_, _, _)
Assigned(all, lo, hi) ==
    IF lo > hi THEN [keys |-> << >>, held |-> << >>]
    ELSE IF lo = hi THEN [keys |-> <<all[lo][1]>>, held |-> (all[lo][1] :> all[lo][2])]
    ELSE Then(Assigned(all, lo, (lo + hi) \div 2),
              Assigned(all, (lo + hi) \div 2 + 1, hi))

\* The dict of a run of assignments as its items, in key order.
Items(a) == [n \in 1..Len(a.keys) |-> <<a.keys[n], a.held[a.keys[n]]>>]

\* d[k] = v for every <<k, v>> of entries, in order: a key stays where it was
\* first inserted and holds the value assigned to it last.
DictUpdate(d, entries) == Items(Assigned(d \o entries, 1, Len(d) + Len(entries)))

\* The concatenation of a sequence of sequences.
RECURSIVE Flatten(_)
Flatten(seqs) ==
    IF Len(seqs) = 0 THEN << >>
    ELSE IF Len(seqs) = 1 THEN seqs[1]
    ELSE LET h == Len(seqs) \div 2
         IN Flatten(SubSeq(seqs, 1, h)) \o Flatten(SubSeq(seqs, h + 1, Len(seqs)))

(***************************************************************************)
(* difflib.get_close_matches(word, possibilities, n=1, cutoff)             *)
(***************************************************************************)
\* The length of the common prefix of a[i-1:] and b[j-1:].
RECURSIVE CommonRun(_, _, _, _)
CommonRun(a, b, i, j) ==
    IF i <= Len(a) /\ j <= Len(b) /\ a[i] = b[j] THEN 1 + CommonRun(a, b, i + 1, j + 1) ELSE 0

\* The common blocks of a and b that cannot be extended to the left, each
\* <<i, j, k>>: a[i-1:i-1+k] == b[j-1:j-1+k].
CommonBlocks(a, b) ==
    {<<p[1], p[2], CommonRun(a, b, p[1], p[2])>> :
        p \in {p \in (1..Len(a)) \X (1..Len(b)) :
                  /\ a[p[1]] = b[p[2]]
                  /\ (p[1] = 1 \/ p[2] = 1 \/ a[p[1] - 1] # b[p[2] - 1])}}

\* Of the blocks the longest, the one starting earliest in a and then
\* earliest in b; <<1, 1, 0>> when there is none.
Longest(blocks) ==
    IF blocks = {} THEN <<1, 1, 0>>
    ELSE CHOOSE m \in blocks :
             \A q \in blocks :
                 \/ q[3] < m[3]
                 \/ (q[3] = m[3] /\ m[1] < q[1])
                 \/ (q[3] = m[3] /\ m[1] = q[1] /\ m[2] <= q[2])

\* SequenceMatcher.find_longest_match over all of a and b, no junk.
find_longest_match(a, b) == Longest(CommonBlocks(a, b))

\* The sum of the sizes of SequenceMatcher.get_matching_blocks(): the longest
\* block m, then the same to its left and to its right.
RECURSIVE matching_size(_, _)
RECURSIVE BlockAndAround(_, _, _)
BlockAndAround(a, b, m) ==
    IF m[3] = 0 THEN 0
    ELSE m[3] + matching_size(SubSeq(a, 1, m[1] - 1), SubSeq(b, 1, m[2] - 1))
              + matching_size(Drop(a, m[1] + m[3]), Drop(b, m[2] + m[3]))

matching_size(a, b) ==
    IF a = << >> \/ b = << >> THEN 0 ELSE BlockAndAround(a, b, find_longest_match(a, b))

\* quick_ratio's fullbcount: how often each character of b occurs in b.
FullCount(b) == [c \in {b[j] : j \in 1..Len(b)} |-> Cardinality({j \in 1..Len(b) : b[j] = c})]

\* quick_ratio's matches: an element of a counts while b still has one of
\* its kind left -- the size of the multiset intersection of a and b.
QuickMatches(a, fullbcount) ==
    Cardinality({i \in 1..Len(a) :
        /\ a[i] \in DOMAIN fullbcount
        /\ Cardinality({h \in 1..(i - 1) : a[h] = a[i]}) < fullbcount[a[i]]})

\* _calculate_ratio(matches, length) >= num/den, in integers; 1.0 for length 0
RatioAtLeast(matches, length, num, den) ==
    IF length = 0 THEN TRUE ELSE 2 * matches * den >= num * length

\* The possibilities whose real_quick_ratio and quick_ratio against word,
\* each an upper bound of ratio, are at least the cutoff.
QuickClose(word, fullbcount, possibilities, num, den) ==
    {x \in {possibilities[i] : i \in 1..Len(possibilities)} :
        /\ RatioAtLeast(IF Len(x) < Len(word) THEN Len(x) ELSE Len(word),
                        Len(x) + Len(word), num, den)
        /\ RatioAtLeast(QuickMatches(x, fullbcount), Len(x) + Len(word), num, den)}

\* The possibilities whose ratio is at least the cutoff, scored: <<M, T, x>>
\* for the ratio 2*M/T of x.
Scored(word, close, num, den) ==
    {p \in {<<matching_size(x, word), Len(x) + Len(word), x>> : x \in close} :
        RatioAtLeast(p[1], p[2], num, den)}

\* heapq.nlargest(1, result) over (ratio, x) tuples: the highest ratio, and,
\* of equal ratios, the greatest x; the ratios compared by cross-multiplication.
nlargest(scored) ==
    IF scored = {} THEN << >>
    ELSE <<(CHOOSE p \in scored :
               \A q \in scored \ {p} :
                   \/ p[1] * q[2] > q[1] * p[2]
                   \/ (p[1] * q[2] = q[1] * p[2] /\ StrLess(q[3], p[3])))[3]>>

\* get_close_matches(word, possibilities, n=1, cutoff=num/den): << >> or <<x>>
get_close_matches(word, possibilities, num, den) ==
    nlargest(Scored(word, QuickClose(word, FullCount(word), possibilities, num, den), num, den))

(***************************************************************************)
(* Account name matching                                                   *)
(***************************************************************************)
\* re.sub(r"\s*\([^)]*\)\s*", " ", name): every leftmost "(" that has a ")"
\* after it, up to the first such ")", with the whitespace around it,
\* becomes one space.
RECURSIVE StripParenthetical(_)
StripParenthetical(name) ==
    LET opens == {i \in 1..Len(name) : name[i] = "(" /\ \E j \in (i + 1)..Len(name) : name[j] = ")"}
    IN IF opens = {} THEN name
       ELSE LET i == CHOOSE x \in opens : \A y \in opens : x <= y
                j == CHOOSE x \in (i + 1)..Len(name) :
                        name[x] = ")" /\ \A y \in (i + 1)..(x - 1) : name[y] # ")"
                b == i - SpaceRunBack(name, i)
                e == j + 1 + SpaceRun(name, j + 1)
            IN SubSeq(name, 1, b - 1) \o <<" ">> \o StripParenthetical(Drop(name, e))

\* Fault: the first character of every word, not the capitals.
Initials(name) == [i \in 1..Len(split(name)) |-> split(name)[i][1]]

\* "".join(c for c in name if c.isupper())
Abbreviation(name) == SelectSeq(name, IsUpper)

\* words[0] if words else ""
FirstOf(words) == IF words = << >> THEN << >> ELSE words[1]

\* name.split()[0] if name.split() else ""
FirstWord(name) == FirstOf(split(name))

\* The assignments of one pass of build_match_candidates's loop, in order:
\* the full name, the name without its parenthetical, the abbreviation from
\* its capitals and its first word.
CandidateEntries(name) ==
    LET base  == strip(StripParenthetical(name))
        abbr  == Abbreviation(name)
        first == FirstWord(name)
    IN <<(<<lower(name), name>>)>>
       \o (IF lower(base) # lower(name) THEN <<(<<lower(base), name>>)>> ELSE << >>)
       \o (IF Len(abbr) >= 2 THEN <<(<<lower(abbr), name>>)>> ELSE << >>)
       \o (IF Len(first) > 3 THEN <<(<<lower(first), name>>)>> ELSE << >>)

\* build_match_candidates(accounts): the dict after the loop over accounts
build_match_candidates(accounts) ==
    DictUpdate(<< >>, Flatten([i \in 1..Len(accounts) |-> CandidateEntries(accounts[i])]))

\* Fault: the keys are tried in insertion order.
Unsorted(keys) == keys

\* sorted(keys, key=len, reverse=True): stable, so keys of one length keep
\* their insertion order.
RECURSIVE SortFrom(_, _)
SortFrom(keys, n) ==
    LET OfLen(k) == Len(k) = n
    IN IF n < 0 THEN << >> ELSE SelectSeq(keys, OfLen) \o SortFrom(keys, n - 1)

MaxLen(keys) == IF keys = << >> THEN 0
                ELSE LET ls == {Len(keys[i]) : i \in 1..Len(keys)}
                     IN CHOOSE n \in ls : \A m \in ls : m <= n

SortedLongestFirst(keys) == SortFrom(keys, MaxLen(keys))

\* Step 1: the first key, longest first, of length >= 4 that occurs in the
\* lowercased text; << >> when none does.
ExactMatch(text, candidates) ==
    LET text_lower == lower(text)
        sorted_names == SortedLongestFirst(DictKeys(candidates))
        hits == {i \in 1..Len(sorted_names) :
                    Len(sorted_names[i]) >= 4 /\ Contains(sorted_names[i], text_lower)}
    IN IF hits = {} THEN << >>
       ELSE <<sorted_names[CHOOSE i \in hits : \A j \in hits : i <= j]>>

\* The cue words of step 2's pattern, in the order of its alternation.
PrepCues == <<<<"a","t">>, <<"f","o","r">>, <<"a","b","o","u","t">>, <<"w","i","t","h">>, <<"f","r","o","m">>, <<"r","e","g","a","r","d","i","n","g">>>>

\* The end of the fragment of step 2's pattern at position p (re.IGNORECASE):
\* \s+about | \s+regarding | \s*[,.] | \s+and\b | \s+they | \s+we | \s+I\b | $
FragmentEndsAt(text, p) ==
    LET low == lower(text)
        run == SpaceRun(text, p)
        q   == p + run
    IN \/ p = Len(text) + 1
       \/ (q <= Len(text) /\ text[q] \in {",", "."})
       \/ /\ run >= 1
          /\ \/ MatchAt(low, q, <<"a","b","o","u","t">>)
             \/ MatchAt(low, q, <<"r","e","g","a","r","d","i","n","g">>)
             \/ (MatchAt(low, q, <<"a","n","d">>) /\ WordBoundary(text, q + 3))
             \/ MatchAt(low, q, <<"t","h","e","y">>)
             \/ MatchAt(low, q, <<"w","e">>)
             \/ (MatchAt(low, q, <<"i">>) /\ WordBoundary(text, q + 1))

\* Where step 2's pattern can match from position i: a cue word at i, \s+
\* (greedy, giving back one character when it reaches the end of the text),
\* then a fragment of at least one character.  The fragment's first position,
\* 0 when the pattern does not match at i.
FragmentStart(text, i) ==
    LET low  == lower(text)
        cues == {c \in 1..Len(PrepCues) : MatchAt(low, i, PrepCues[c])}
    IN IF cues = {} THEN 0
       ELSE LET e   == i + Len(PrepCues[CHOOSE c \in cues : TRUE])
                run == SpaceRun(text, e)
                w   == IF e + run > Len(text) THEN run - 1 ELSE run
            IN IF w >= 1 THEN e + w ELSE 0

\* prep_match.group(1).strip() of re.search: the leftmost match, its fragment
\* lazy: up to the first position where the pattern's end matches.  <<fragment>>,
\* or << >> when the pattern matches nowhere.
PrepFragment(text) ==
    LET starts == {i \in 1..Len(text) : FragmentStart(text, i) > 0}
    IN IF starts = {} THEN << >>
       ELSE LET i == CHOOSE x \in starts : \A y \in starts : x <= y
                s == FragmentStart(text, i)
                p == CHOOSE x \in (s + 1)..(Len(text) + 1) :
                        /\ FragmentEndsAt(text, x)
                        /\ \A y \in (s + 1)..(x - 1) : ~FragmentEndsAt(text, y)
            IN <<strip(SubSeq(text, s, p - 1))>>

\* Fault: step 2 with the cutoff of step 3, 0.65.
PrepMatchAt65(text, candidates) ==
    LET frag == PrepFragment(text)
    IN IF frag = << >> THEN << >>
       ELSE get_close_matches(lower(frag[1]), DictKeys(candidates), 13, 20)

\* Step 2: the closest key to the fragment after a cue word, cutoff 0.6.
PrepMatch(text, candidates) ==
    LET frag == PrepFragment(text)
    IN IF frag = << >> THEN << >>
       ELSE get_close_matches(lower(frag[1]), DictKeys(candidates), 3, 5)

\* Fault: the smaller windows come first, sizes 2, 3, 4.
SmallestFirst(words) ==
    [i \in 1..(IF Len(words) >= 2 THEN Len(words) - 1 ELSE 0) |-> join(SubSeq(words, i, i + 1))]
    \o [i \in 1..(IF Len(words) >= 3 THEN Len(words) - 2 ELSE 0) |-> join(SubSeq(words, i, i + 2))]
    \o [i \in 1..(IF Len(words) >= 4 THEN Len(words) - 3 ELSE 0) |-> join(SubSeq(words, i, i + 3))]

\* The windows of step 3 in the order of its two loops: sizes 4, 3, 2, and
\* for each size every start index left to right.
Windows(words) ==
    [i \in 1..(IF Len(words) >= 4 THEN Len(words) - 3 ELSE 0) |-> join(SubSeq(words, i, i + 3))]
    \o [i \in 1..(IF Len(words) >= 3 THEN Len(words) - 2 ELSE 0) |-> join(SubSeq(words, i, i + 2))]
    \o [i \in 1..(IF Len(words) >= 2 THEN Len(words) - 1 ELSE 0) |-> join(SubSeq(words, i, i + 1))]

\* The first of the matches that is not empty, << >> when all are.
FirstMatch(matches) ==
    IF \A i \in 1..Len(matches) : matches[i] = << >> THEN << >>
    ELSE matches[CHOOSE i \in 1..Len(matches) :
                    matches[i] # << >> /\ \A j \in 1..(i - 1) : matches[j] = << >>]

\* Step 3: the closest key, cutoff 0.65, of the first window that has one.
WindowMatch(windows, candidates) ==
    FirstMatch([i \in 1..Len(windows) |->
                   get_close_matches(lower(windows[i]), DictKeys(candidates), 13, 20)])

\* Fault: the fuzzy steps come before the exact one.
FuzzyFirst(m1, m2, m3) ==
    IF m2 # << >> THEN [step |-> 2, key |-> m2[1]]
    ELSE IF m3 # << >> THEN [step |-> 3, key |-> m3[1]]
    ELSE IF m1 # << >> THEN [step |-> 1, key |-> m1[1]]
    ELSE [step |-> 0, key |-> << >>]

\* The step of match_account that returns, and the key it returns by:
\* [step |-> 1..3, key |-> k], or step 0 when no step matches.
FirstStep(m1, m2, m3) ==
    IF m1 # << >> THEN [step |-> 1, key |-> m1[1]]
    ELSE IF m2 # << >> THEN [step |-> 2, key |-> m2[1]]
    ELSE IF m3 # << >> THEN [step |-> 3, key |-> m3[1]]
    ELSE [step |-> 0, key |-> << >>]

MatchStep(text, candidates) ==
    FirstStep(ExactMatch(text, candidates), PrepMatch(text, candidates),
              WindowMatch(Windows(split(text)), candidates))

\* return candidates[key], or "" when no step matched
Matched(candidates, m) == IF m.step = 0 THEN << >> ELSE DictGet(candidates, m.key)

MatchIn(text, candidates) == Matched(candidates, MatchStep(text, candidates))

\* match_account(text, known_accounts): the canonical name, "" when unmatched
match_account(text, known_accounts) == MatchIn(text, build_match_candidates(known_accounts))

(***************************************************************************)
(* Activity type detection                                                 *)
(***************************************************************************)
\* ACTIVITY_PATTERNS in declaration order.  Each pattern is \b...\b around a
\* finite choice of phrases and is written as the set of those phrases.
ACTIVITY_PATTERNS == <<
    [type |-> "call", patterns |-> <<
        {<<"c","a","l","l">>, <<"c","a","l","l","e","d">>, <<"c","a","l","l","i","n","g">>},
        {<<"p","h","o","n","e">>, <<"p","h","o","n","e","d">>, <<"p","h","o","n","i","n","g">>},
        {<<"r","a","n","g">>},
        {<<"s","p","o","k","e"," ","t","o">>, <<"s","p","o","k","e"," ","w","i","t","h">>},
        {<<"t","a","l","k","e","d"," ","t","o">>, <<"t","a","l","k","e","d"," ","w","i","t","h">>},
        {<<"d","i","a","l","e","d">>},
        {<<"l","o","g"," ","a"," ","c","a","l","l">>},
        {<<"c","o","l","d"," ","c","a","l","l">>},
        {<<"p","h","o","n","e"," ","c","a","l","l">>} >>],
    [type |-> "email", patterns |-> <<
        {<<"e","m","a","i","l">>, <<"e","m","a","i","l","e","d">>, <<"e","m","a","i","l","i","n","g">>},
        {<<"e","m","a","i","l">>, <<"e","-","m","a","i","l">>},
        {<<"s","e","n","t"," ","e","m","a","i","l">>, <<"s","e","n","t"," ","m","e","s","s","a","g","e">>, <<"s","e","n","t"," ","n","o","t","e">>,
         <<"s","e","n","t"," ","a"," ","e","m","a","i","l">>, <<"s","e","n","t"," ","a"," ","m","e","s","s","a","g","e">>, <<"s","e","n","t"," ","a"," ","n","o","t","e">>,
         <<"s","e","n","t"," ","a","n"," ","e","m","a","i","l">>, <<"s","e","n","t"," ","a","n"," ","m","e","s","s","a","g","e">>, <<"s","e","n","t"," ","a","n"," ","n","o","t","e">>},
        {<<"i","n","b","o","x">>},
        {<<"w","r","o","t","e"," ","t","o">>},
        {<<"f","o","l","l","o","w","e","d"," ","u","p"," ","v","i","a"," ","e","m","a","i","l">>} >>],
    [type |-> "meeting", patterns |-> <<
        {<<"m","e","t">>, <<"m","e","e","t","i","n","g">>},
        {<<"s","a","t"," ","d","o","w","n"," ","w","i","t","h">>},
        {<<"v","i","s","i","t">>, <<"v","i","s","i","t","e","d">>, <<"v","i","s","i","t","i","n","g">>},
        {<<"s","i","t","e"," ","v","i","s","i","t">>},
        {<<"d","e","m","o">>, <<"d","e","m","o","n","s","t","r","a","t","e","d">>, <<"d","e","m","o","n","s","t","r","a","t","i","o","n">>},
        {<<"p","r","e","s","e","n","t","e","d">>, <<"p","r","e","s","e","n","t","a","t","i","o","n">>},
        {<<"l","u","n","c","h">>, <<"l","u","n","c","h","e","d">>},
        {<<"c","o","f","f","e","e"," ","w","i","t","h">>},
        {<<"t","e","a","m","s"," ","c","a","l","l">>},
        {<<"z","o","o","m">>},
        {<<"w","e","b","e","x">>},
        {<<"i","n","-","p","e","r","s","o","n">>},
        {<<"f","a","c","e"," ","t","o"," ","f","a","c","e">>} >>],
    [type |-> "note", patterns |-> <<
        {<<"n","o","t","e">>},
        {<<"u","p","d","a","t","e">>},
        {<<"f","y","i">>},
        {<<"h","e","a","d","s"," ","u","p">>},
        {<<"j","u","s","t"," ","n","o","t","e">>, <<"j","u","s","t"," ","a"," ","n","o","t","e">>, <<"j","u","s","t"," ","q","u","i","c","k"," ","n","o","t","e">>, <<"j","u","s","t"," ","a"," ","q","u","i","c","k"," ","n","o","t","e">>},
        {<<"r","e","m","i","n","d","e","r">>} >>] >>

\* re.search(pattern, text_lower) for a pattern \b(phrase|...)\b
PatternFound(phrases, text_lower) ==
    \E ph \in phrases : \E i \in 1..(Len(text_lower) - Len(ph) + 1) :
        /\ MatchAt(text_lower, i, ph)
        /\ WordBoundary(text_lower, i)
        /\ WordBoundary(text_lower, i + Len(ph))

\* scores after the two loops of detect_activity_type: for each type of
\* ACTIVITY_PATTERNS, in order, the number of its patterns found
Scores(text) ==
    LET text_lower == lower(text)
        Found(t) == {p \in 1..Len(ACTIVITY_PATTERNS[t].patterns) :
                        PatternFound(ACTIVITY_PATTERNS[t].patterns[p], text_lower)}
    IN << >> \o [t \in 1..Len(ACTIVITY_PATTERNS) |-> Cardinality(Found(t))]

\* Fault: of equal top scores the last declared wins.
LastBest(scores) ==
    CHOOSE t \in 1..Len(scores) :
        /\ \A u \in 1..Len(scores) : scores[u] <= scores[t]
        /\ \A u \in (t + 1)..Len(scores) : scores[u] < scores[t]

\* max(scores, key=scores.get): the first type, in declaration order, whose
\* score no other exceeds
BestType(scores) ==
    CHOOSE t \in 1..Len(scores) :
        /\ \A u \in 1..Len(scores) : scores[u] <= scores[t]
        /\ \A u \in 1..(t - 1) : scores[u] < scores[t]

\* detect_activity_type(text)
detect_activity_type(text) ==
    LET scores == Scores(text)
        best   == BestType(scores)
    IN IF scores[best] > 0 THEN ACTIVITY_PATTERNS[best].type ELSE "note"

(***************************************************************************)
(* Contact name extraction                                                 *)
(***************************************************************************)
\* The alternatives of CONTACT_PREFIXES[0]; \s+ follows each.
CONTACT_PREFIXES == <<<<"w","i","t","h">>, <<"t","o">>, <<"f","r","o","m">>, <<"a","n","d">>, <<"m","e","t">>, <<"c","a","l","l","e","d">>, <<"e","m","a","i","l","e","d">>,
                      <<"s","p","o","k","e"," ","t","o">>, <<"t","a","l","k","e","d"," ","t","o">>, <<"t","a","l","k","e","d"," ","w","i","t","h">>, <<"s","p","o","k","e"," ","w","i","t","h">>>>

\* The number of characters [a-z] of s from position i on.
RECURSIVE LowerRun(_, _)
LowerRun(s, i) == IF i <= Len(s) /\ IsLower(s[i]) THEN 1 + LowerRun(s, i + 1) ELSE 0

\* [A-Z][a-z]+ at position i of s: its length, 0 when it does not match.
NameWordAt(s, i) == IF i <= Len(s) /\ IsUpper(s[i]) /\ LowerRun(s, i + 1) >= 1
                    THEN 1 + LowerRun(s, i + 1) ELSE 0

\* (?:\s+[A-Z][a-z]+){0,more} at position i of s, greedy: its length.
RECURSIVE MoreNameWords(_, _, _)
MoreNameWords(s, i, more) ==
    LET run == SpaceRun(s, i)
        w   == NameWordAt(s, i + run)
    IN IF more = 0 \/ run = 0 \/ w = 0 THEN 0
       ELSE run + w + MoreNameWords(s, i + run + w, more - 1)

\* NAME_PATTERN at position i of s: the length of group 1, 0 when no match.
NameAt(s, i) == LET w == NameWordAt(s, i)
                IN IF w = 0 THEN 0 ELSE w + MoreNameWords(s, i + w, 2)

\* prefix + NAME_PATTERN at position i of s: <<start, length>> of group 1,
\* <<0, 0>> when the pattern does not match at i.
ContactAt(s, i) ==
    LET ps == {p \in 1..Len(CONTACT_PREFIXES) : MatchAt(s, i, CONTACT_PREFIXES[p])}
    IN IF ps = {} THEN <<0, 0>>
       ELSE LET e   == i + Len(CONTACT_PREFIXES[CHOOSE p \in ps : TRUE])
                run == SpaceRun(s, e)
                n   == NameAt(s, e + run)
            IN IF run >= 1 /\ n > 0 THEN <<e + run, n>> ELSE <<0, 0>>

\* Weekdays, months and the other false positives of extract_contact_name.
skip_words == {
    <<"M","o","n","d","a","y">>, <<"T","u","e","s","d","a","y">>, <<"W","e","d","n","e","s","d","a","y">>, <<"T","h","u","r","s","d","a","y">>, <<"F","r","i","d","a","y">>,
    <<"S","a","t","u","r","d","a","y">>, <<"S","u","n","d","a","y">>, <<"J","a","n","u","a","r","y">>, <<"F","e","b","r","u","a","r","y">>, <<"M","a","r","c","h">>,
    <<"A","p","r","i","l">>, <<"M","a","y">>, <<"J","u","n","e">>, <<"J","u","l","y">>, <<"A","u","g","u","s","t">>, <<"S","e","p","t","e","m","b","e","r">>,
    <<"O","c","t","o","b","e","r">>, <<"N","o","v","e","m","b","e","r">>, <<"D","e","c","e","m","b","e","r">>, <<"T","o","d","a","y">>, <<"T","o","m","o","r","r","o","w">>,
    <<"T","h","e">>, <<"T","h","i","s">>, <<"T","h","a","t">>, <<"T","h","e","y">>, <<"T","h","e","i","r">>, <<"A","b","o","u","t">>,
    <<"C","a","l","l","e","d">>, <<"E","m","a","i","l","e","d">>, <<"M","e","e","t","i","n","g">>, <<"N","o","t","e">>, <<"U","p","d","a","t","e">>}

\* Fault: the filter of false positives is missing.
AnyName(words) == TRUE

\* words[0] not in skip_words and len(words) >= 2
Qualifies(words) == words[1] \notin skip_words /\ Len(words) >= 2

\* Fault: the search goes on to the next match when one fails the checks.
FirstQualifying(text, account_name) ==
    LET cleaned == IF account_name # << >> THEN replace(text, account_name, << >>) ELSE text
        NameFrom(i) == strip(SubSeq(cleaned, ContactAt(cleaned, i)[1],
                                    ContactAt(cleaned, i)[1] + ContactAt(cleaned, i)[2] - 1))
        found   == {i \in 1..Len(cleaned) :
                       ContactAt(cleaned, i)[2] > 0 /\ Qualifies(split(NameFrom(i)))}
    IN IF found = {} THEN << >>
       ELSE NameFrom(CHOOSE x \in found : \A y \in found : x <= y)

\* extract_contact_name(text, account_name): the leftmost match of the
\* pattern decides; "" when it fails the checks or nothing matches
extract_contact_name(text, account_name) ==
    LET cleaned == IF account_name # << >> THEN replace(text, account_name, << >>) ELSE text
        found   == {i \in 1..Len(cleaned) : ContactAt(cleaned, i)[2] > 0}
    IN IF found = {} THEN << >>
       ELSE LET i     == CHOOSE x \in found : \A y \in found : x <= y
                m     == ContactAt(cleaned, i)
                name  == strip(SubSeq(cleaned, m[1], m[1] + m[2] - 1))
                words == split(name)
            IN IF Qualifies(words) THEN name ELSE << >>

(***************************************************************************)
(* Summary                                                                 *)
(***************************************************************************)
\* The number of characters \w of s from position i on.
RECURSIVE WordCharRun(_, _)
WordCharRun(s, i) == IF i <= Len(s) /\ IsWordChar(s[i]) THEN 1 + WordCharRun(s, i + 1) ELSE 0

\* The length of the match of preambles[0] at the start of s (re.IGNORECASE):
\* ^(?:I |just |hey |log a \w+ |note |update ), 0 when it does not match.
FillerPreamble(s) ==
    LET low == lower(s)
        n   == WordCharRun(s, 7)
    IN IF MatchAt(low, 1, <<"i"," ">>) THEN 2
       ELSE IF MatchAt(low, 1, <<"j","u","s","t"," ">>) THEN 5
       ELSE IF MatchAt(low, 1, <<"h","e","y"," ">>) THEN 4
       ELSE IF MatchAt(low, 1, <<"l","o","g"," ","a"," ">>) /\ n >= 1 /\ MatchAt(s, 7 + n, <<" ">>) THEN 7 + n
       ELSE IF MatchAt(low, 1, <<"n","o","t","e"," ">>) THEN 5
       ELSE IF MatchAt(low, 1, <<"u","p","d","a","t","e"," ">>) THEN 7
       ELSE 0

\* The verbs of preambles[1] in the order of its alternation; \s+ follows.
VerbPreambles == <<<<"c","a","l","l","e","d">>, <<"e","m","a","i","l","e","d">>, <<"m","e","t"," ","w","i","t","h">>, <<"h","a","d"," ","a"," ","m","e","e","t","i","n","g"," ","w","i","t","h">>,
                   <<"s","p","o","k","e"," ","t","o">>, <<"s","p","o","k","e"," ","w","i","t","h">>, <<"t","a","l","k","e","d"," ","t","o">>, <<"t","a","l","k","e","d"," ","w","i","t","h">>>>

\* Fault: the loop stops after preambles[0].
FirstPreambleOnly(s) == 0

\* The length of the match of preambles[1] at the start of s, 0 when none.
VerbPreamble(s) ==
    LET low == lower(s)
        vs  == {v \in 1..Len(VerbPreambles) :
                   MatchAt(low, 1, VerbPreambles[v]) /\ SpaceRun(s, Len(VerbPreambles[v]) + 1) >= 1}
    IN IF vs = {} THEN 0
       ELSE LET v == CHOOSE x \in vs : \A y \in vs : x <= y
            IN Len(VerbPreambles[v]) + SpaceRun(s, Len(VerbPreambles[v]) + 1)

\* Fault: a summary shorter than 10 is kept.
KeepShort(summary, text) == summary

\* if len(summary) < 10: summary = text.strip()
RestoreShort(summary, text) == IF Len(summary) < 10 THEN strip(text) ELSE summary

\* summary[0].upper() + summary[1:] if summary
Capitalise(summary) ==
    IF summary # << >> THEN <<UpperChar(summary[1])>> \o Tail(summary) ELSE summary

\* The summary after the loop over preambles: each pattern is removed from
\* the start of what the one before left, and the rest is stripped.
StripPreambles(s0) ==
    LET s1 == strip(Drop(s0, FillerPreamble(s0) + 1))
    IN strip(Drop(s1, VerbPreamble(s1) + 1))

\* build_summary(text, account, contact, activity_type); only text is read
build_summary(text) == Capitalise(RestoreShort(StripPreambles(strip(text)), text))
(***************************************************************************)
(* The cal-proxy: what one HTTP call can come to.                          *)
(*                                                                         *)
(* A call raises (the proxy is unreachable, or the 5 s timeout expires) or *)
(* returns a response with a status and a body.  A body is not JSON        *)
(* (r.json() raises), JSON that is no object (data.get raises), or an      *)
(* object whose list ("deals", "keys") holds items; an item the loop       *)
(* cannot read (a value without .get, .lower or .startswith) is malformed. *)
(***************************************************************************)
NoBody == [shape |-> "none", items |-> << >>]

ConnectionError == [kind |-> "ConnectionError", status |-> 0, body |-> NoBody]

Timeout == [kind |-> "Timeout", status |-> 0, body |-> NoBody]

Response(status, body) == [kind |-> "response", status |-> status, body |-> body]

\* The longest lists of deals and of backup keys a response holds.
MaxItems == 1

SeqsUpTo(S, n) == UNION {[1..k -> S] : k \in 0..n}

Bodies(items) == {[shape |-> "not_json", items |-> << >>], [shape |-> "not_object", items |-> << >>]}
                 \cup {[shape |-> "object", items |-> s] : s \in SeqsUpTo(items, MaxItems)}

\* A deal of /pipeline; name is its "account", "" when it has none.
Deal(name) == [shape |-> "deal", name |-> name]

\* An entry of /backup's "keys": the key and whether its value, the account
\* blob, is decodable JSON ("json") or not ("undecodable").
Key(name, blob) == [shape |-> "key", name |-> name, blob |-> blob]

Malformed == [shape |-> "malformed", name |-> << >>]

PipelineItems == {Deal(<<"Z","e","p","h","y","r"," ","L","a","b","s">>), Deal(<<"S","A","S","K","T","E","L">>), Deal(<< >>), Malformed}

BackupItems == {Key(<<"x","i","t","s","_","a","c","c","t","_","z","e","p","h","y","r","_","l","a","b","s">>, "undecodable"), Key(<<"x","i","t","s","_","a","c","c","t","_","s","a","s","k","t","e","l">>, "json"),
                Key(<<"n","o","t","e","s","_","z","e","p","h","y","r">>, "json"), Malformed}

GetStatuses == {200, 500}

PostStatuses == {200, 201, 500}

PipelineOutcomes == {ConnectionError, Timeout}
                    \cup {Response(s, b) : s \in GetStatuses, b \in Bodies(PipelineItems)}

BackupOutcomes == {ConnectionError, Timeout}
                  \cup {Response(s, b) : s \in GetStatuses, b \in Bodies(BackupItems)}

PostOutcomes == {ConnectionError, Timeout} \cup {Response(s, NoBody) : s \in PostStatuses}

(***************************************************************************)
(* fetch_known_accounts                                                    *)
(***************************************************************************)
fallback == <<
    <<"G","o","v","e","r","n","m","e","n","t"," ","o","f"," ","S","a","s","k","a","t","c","h","e","w","a","n">>, <<"N","u","t","r","i","e","n"," ","L","t","d">>, <<"S","a","s","k","T","e","l">>,
    <<"F","e","d","e","r","a","t","e","d"," ","C","o","-","o","p","e","r","a","t","i","v","e","s">>, <<"S","G","I"," ","C","a","n","a","d","a">>, <<"T","h","e"," ","M","o","s","a","i","c"," ","C","o","m","p","a","n","y">>,
    <<"S","I","G","A">>, <<"B","r","a","n","d","t"," ","G","r","o","u","p">>, <<"S","a","s","k","E","n","e","r","g","y">>, <<"C","a","m","e","c","o"," ","C","o","r","p","o","r","a","t","i","o","n">>,
    <<"C","o","n","e","x","u","s"," ","C","r","e","d","i","t"," ","U","n","i","o","n">>, <<"A","f","f","i","n","i","t","y"," ","C","r","e","d","i","t"," ","U","n","i","o","n">>, <<"V","i","t","e","r","r","a">>,
    <<"S","a","s","k","a","t","c","h","e","w","a","n"," ","W","C","B">>, <<"C","i","t","y"," ","o","f"," ","S","a","s","k","a","t","o","o","n">>, <<"C","i","t","y"," ","o","f"," ","R","e","g","i","n","a">>,
    <<"S","a","s","k","a","t","c","h","e","w","a","n"," ","H","e","a","l","t","h"," ","A","u","t","h","o","r","i","t","y">>, <<"e","H","e","a","l","t","h"," ","S","a","s","k","a","t","c","h","e","w","a","n">>,
    <<"S","a","s","k","P","o","w","e","r">>, <<"B","u","n","g","e"," ","C","a","n","a","d","a">>, <<"K","+","S"," ","P","o","t","a","s","h"," ","C","a","n","a","d","a">>,
    <<"R","e","g","i","n","a"," ","G","e","n","e","r","a","l"," ","H","o","s","p","i","t","a","l">>, <<"S","t"," ","P","a","u","l","'","s"," ","H","o","s","p","i","t","a","l">>,
    <<"S","a","s","k","a","t","c","h","e","w","a","n"," ","G","a","m","i","n","g"," ","C","o","r","p","o","r","a","t","i","o","n">>, <<"F","a","r","m"," ","C","r","e","d","i","t"," ","C","a","n","a","d","a">>,
    <<"V","e","c","i","m","a"," ","N","e","t","w","o","r","k","s">>, <<"B","o","u","r","g","a","u","l","t"," ","I","n","d","u","s","t","r","i","e","s">>, <<"C","G","I">>,
    <<"P","r","i","n","c","e"," ","A","l","b","e","r","t"," ","G","r","a","n","d"," ","C","o","u","n","c","i","l">>, <<"P","o","t","a","s","h"," ","C","o","r","p"," ","o","f"," ","S","K">>,
    <<"G","S","C","S">>, <<"S","L","G","A">>, <<"P","h","a","r","m","a"," ","C","h","o","i","c","e"," ","C","a","n","a","d","a">>,
    <<"M","a","p","l","e"," ","L","e","a","f"," ","C","o","n","s","u","m","e","r"," ","F","o","o","d","s">>, <<"T","r","a","n","s"," ","G","a","s"," ","L","t","d">>,
    <<"S","u","n"," ","C","o","u","n","t","r","y"," ","R","e","g","i","o","n","a","l"," ","H","e","a","l","t","h">>, <<"F","i","v","e"," ","H","i","l","l","s"," ","H","e","a","l","t","h"," ","R","e","g","i","o","n">>,
    <<"K","e","l","s","e","y"," ","T","r","a","i","l"," ","H","e","a","l","t","h"," ","R","e","g","i","o","n">>, <<"R","a","n","c","h"," ","E","h","r","l","o"," ","S","o","c","i","e","t","y">>,
    <<"N","o","r","t","h","e","r","n"," ","L","i","g","h","t","s"," ","C","a","s","i","n","o">>, <<"G","o","l","d"," ","E","a","g","l","e"," ","C","a","s","i","n","o">>,
    <<"P","a","i","n","t","e","d"," ","H","a","n","d"," ","C","a","s","i","n","o">>, <<"C","a","n","a","d","i","a","n"," ","P","a","c","i","f","i","c"," ","R","a","i","l","w","a","y">> >>

\* The items a loop reads before it raises: those before the first malformed.
Readable(items) ==
    LET bad == {i \in 1..Len(items) : items[i].shape = "malformed"}
    IN IF bad = {} THEN items
       ELSE SubSeq(items, 1, (CHOOSE i \in bad : \A j \in bad : i <= j) - 1)

\* Whether the body of a try block over this outcome raises.
Raises(outcome) ==
    \/ outcome.kind # "response"
    \/ outcome.body.shape # "object"
    \/ \E i \in 1..Len(outcome.body.items) : outcome.body.items[i].shape = "malformed"

\* The names each loop takes from what it can read of an outcome (the status
\* is not read): the account of every deal that has one, and for every key
\* key.startswith("xits_acct_") the key without the prefix, "_" as " " (the
\* loop is over the keys; the blob of a key is not read).
PipelineNames(outcome) ==
    LET HasAccount(d) == d.name # << >>
        deals == IF outcome.kind = "response" /\ outcome.body.shape = "object"
                 THEN SelectSeq(Readable(outcome.body.items), HasAccount) ELSE << >>
    IN [i \in 1..Len(deals) |-> deals[i].name]

BackupNames(outcome) ==
    LET IsAccount(k) == startswith(k.name, <<"x","i","t","s","_","a","c","c","t","_">>)
        keys == IF outcome.kind = "response" /\ outcome.body.shape = "object"
                THEN SelectSeq(Readable(outcome.body.items), IsAccount) ELSE << >>
    IN [i \in 1..Len(keys) |->
           strip(replace(replace(keys[i].name, <<"x","i","t","s","_","a","c","c","t","_">>, << >>), <<"_">>, <<" ">>))]

\* accounts[name.lower()] = name for every name, in order
AddAll(accounts, names) ==
    DictUpdate(accounts, [i \in 1..Len(names) |-> <<lower(names[i]), names[i]>>])

\* Fault: the backup loop assigns without looking.
Overwrite(accounts, names) ==
    DictUpdate(accounts, [i \in 1..Len(names) |-> <<lower(names[i]), names[i]>>])

\* if name.lower() not in accounts: accounts[name.lower()] = name, in order
AddMissing(accounts, names) ==
    LET New(i) == /\ ~DictHas(accounts, lower(names[i]))
                  /\ \A j \in 1..(i - 1) : lower(names[j]) # lower(names[i])
        idx == SelectSeq([i \in 1..Len(names) |-> i], New)
    IN accounts \o [n \in 1..Len(idx) |-> <<lower(names[idx[n]]), names[idx[n]]>>]

\* Fault: a try block that raised sends the run back to the first fetch.
RetryOnRaise(raised, next) == IF raised THEN "fetch_pipeline" ELSE next

\* Fault: no except clause, an exception in a try block ends the run.
AbortOnRaise(raised, next) == IF raised THEN "aborted" ELSE next

\* except Exception: pass -- where fetch_known_accounts goes on after a try
\* block, whether or not its body raised.
AfterTry(raised, next) == next

(***************************************************************************)
(* post_to_calproxy and process_transcription                              *)
(***************************************************************************)
\* Fault: any 2xx status counts as success.
PostedOn2xx(outcome) == outcome.kind = "response" /\ outcome.status \in 200..299

\* r.status_code == 200, or False after an exception
Posted(outcome) == outcome.kind = "response" /\ outcome.status = 200

\* The lines post_to_calproxy prints to stderr for an outcome.
PostWarnings(outcome) ==
    IF outcome.kind # "response" THEN <<"Warning: Could not post to cal-proxy">> ELSE << >>

\* Fault: the early return of an unmatched record is missing.
AlwaysPost(account) == "post"

\* The statement after the record is assembled: the early return of an
\* unmatched record, or the post.
AfterAssembly(account) == IF account = << >> THEN "return" ELSE "post"

\* The record process_transcription assembles once the account is resolved.
Record(text, account) ==
    [account |-> account,
     contact |-> extract_contact_name(text, account),
     activity_type |-> detect_activity_type(text),
     summary |-> build_summary(text),
     matched |-> account # << >>,
     error |-> IF account = << >> THEN "account_not_matched" ELSE "unset",
     posted |-> "unset"]

\* The transcriptions given as --text.
Transcriptions == {
    <<"H","a","d"," ","a"," ","g","r","e","a","t"," ","c","a","l","l"," ","w","i","t","h"," ","S","a","r","a","h"," ","J","o","h","n","s","o","n"," ","a","t"," ","S","a","s","k","T","e","l"," ","a","b","o","u","t"," ","r","e","n","e","w","a","l">>,
    <<"e","m","a","i","l","e","d"," ","B","o","b"," ","L","e","e"," ","a","t"," ","Z","e","p","h","y","r"," ","L","a","b","s">> }

NoResult == [account |-> << >>, contact |-> << >>, activity_type |-> "none",
             summary |-> << >>, matched |-> FALSE, error |-> "unset", posted |-> "unset"]

VARIABLES
    pc,              \* the statement the run is at
    text,            \* args.text
    accounts,        \* fetch_known_accounts: lowercase key -> proper-cased name
    known_accounts,  \* the directory: list(accounts.values())
    result,          \* the record of process_transcription
    http,            \* the requests sent so far, each with what it came to
    stdout,          \* the kinds of message printed
    stderr,          \* the warnings printed
    args_json,       \* args.json as main reads it, "unread" before
    state_file,      \* deal-alerts.py: the "sent" entries of alert-state.json
    alerts           \* deal-alerts.py: the lists check_alerts returned, one per run

vars == <<pc, text, accounts, known_accounts, result, http, stdout, stderr, args_json, state_file, alerts>>

Init ==
    /\ pc = "fetch_pipeline"
    /\ text \in Transcriptions
    /\ accounts = << >>
    /\ known_accounts = << >>
    /\ result = NoResult
    /\ http = << >>
    /\ stdout = << >>
    /\ stderr = << >>
    /\ args_json = "unread"
    /\ state_file = {}
    /\ alerts = << >>

\* fetch_known_accounts, the first try block: GET /pipeline
FetchPipeline ==
    /\ pc = "fetch_pipeline"
    /\ \E outcome \in PipelineOutcomes :
        /\ http' = Append(http, [request |-> "GET /pipeline", outcome |-> outcome])
        /\ accounts' = AddAll(accounts, PipelineNames(outcome))
        /\ pc' = AfterTry(Raises(outcome), "fetch_backup")
    /\ UNCHANGED <<text, known_accounts, result, stdout, stderr, args_json, state_file, alerts>>

\* fetch_known_accounts, the second try block: GET /backup
FetchBackup ==
    /\ pc = "fetch_backup"
    /\ \E outcome \in BackupOutcomes :
        /\ http' = Append(http, [request |-> "GET /backup", outcome |-> outcome])
        /\ accounts' = AddMissing(accounts, BackupNames(outcome))
        /\ pc' = AfterTry(Raises(outcome), "merge_fallback")
    /\ UNCHANGED <<text, known_accounts, result, stdout, stderr, args_json, state_file, alerts>>

\* fetch_known_accounts, the fallback loop and the return
MergeFallback ==
    /\ pc = "merge_fallback"
    /\ accounts' = AddAll(accounts, fallback)
    /\ known_accounts' = DictValues(accounts')
    /\ pc' = "analyse"
    /\ UNCHANGED <<text, result, http, stdout, stderr, args_json, state_file, alerts>>

\* process_transcription from detect_activity_type to the record, and the
\* early return of an unmatched record
Analyse ==
    /\ pc = "analyse"
    /\ result' = Record(text, match_account(text, known_accounts))
    /\ stdout' = IF result'.account = << >> THEN Append(stdout, "diagnostic") ELSE stdout
    /\ pc' = AfterAssembly(result'.account)
    /\ UNCHANGED <<text, accounts, known_accounts, http, stderr, args_json, state_file, alerts>>

\* process_transcription from post_to_calproxy to the return
Post ==
    /\ pc = "post"
    /\ \E outcome \in PostOutcomes :
        /\ http' = Append(http, [request |-> "POST /notes", outcome |-> outcome])
        /\ stderr' = stderr \o PostWarnings(outcome)
        /\ result' = [result EXCEPT !.posted = Posted(outcome)]
        /\ stdout' = Append(stdout, IF Posted(outcome) THEN "confirmation"
                                    ELSE "confirmation (note: cal-proxy sync pending)")
    /\ pc' = "return"
    /\ UNCHANGED <<text, accounts, known_accounts, args_json, state_file, alerts>>

\* main after process_transcription returns: with --json the record is
\* printed as JSON.  The flag is read nowhere else, so whether it was given
\* is settled here.
Main ==
    /\ pc = "return"
    /\ \E json \in {"true", "false"} :
        /\ args_json' = json
        /\ stdout' = IF json = "true" THEN Append(stdout, "json") ELSE stdout
    /\ pc' = "done"
    /\ UNCHANGED <<text, accounts, known_accounts, result, http, stderr, state_file, alerts>>

Next == FetchPipeline \/ FetchBackup \/ MergeFallback \/ Analyse \/ Post \/ Main

Spec == Init /\ [][Next]_vars

\* The run is sequential and every call to the proxy returns or raises, so
\* no statement waits for ever: weak fairness of every action.  MergeFallback
\* and Analyse are each enabled exactly at their own pc and always leave it,
\* so their weak fairness says that the run does not stay at that pc.
FairSpec ==
    /\ Spec
    /\ WF_vars(FetchPipeline)
    /\ WF_vars(FetchBackup)
    /\ []<>(pc # "merge_fallback")
    /\ []<>(pc # "analyse")
    /\ WF_vars(Post)
    /\ WF_vars(Main)

(***************************************************************************)
(* match_account on its own: every text and directory within the bounds.   *)
(***************************************************************************)
\* The most phrases a text is made of.
MaxPhrases == 2

\* The most accounts a directory given to match_account holds.
MaxAccounts == 2

\* The texts made of up to n of the phrases, joined by single spaces.
TextsOf(phrases, n) == {join(s) : s \in SeqsUpTo(phrases, n)}

ResolvePhrases == {<<"S","a","s","k","T","e","l">>, <<"c","i","t","y"," ","o","f"," ","r","e","g","i","n","a">>, <<"C","G","I">>, <<"s","i","g","a">>, <<"a","t">>, <<"s","a","s","k","a","t","e","l">>}

ResolveAccounts == {<<"S","a","s","k","T","e","l">>, <<"C","i","t","y"," ","o","f"," ","R","e","g","i","n","a">>, <<"C","G","I">>,
                    <<"S","a","s","k","a","t","c","h","e","w","a","n"," ","I","n","d","i","a","n"," ","G","a","m","i","n","g"," ","A","u","t","h","o","r","i","t","y">>}

InitResolve ==
    /\ pc = "match_account"
    /\ text \in TextsOf(ResolvePhrases, MaxPhrases)
    /\ known_accounts \in SeqsUpTo(ResolveAccounts, MaxAccounts)
    /\ accounts = << >>
    /\ result = NoResult
    /\ http = << >>
    /\ stdout = << >>
    /\ stderr = << >>
    /\ args_json = "unread"
    /\ state_file = {}
    /\ alerts = << >>

\* match_account(text, known_accounts), with the step that returned
Resolve ==
    /\ pc = "match_account"
    /\ result' = [account |-> match_account(text, known_accounts),
                  step |-> MatchStep(text, build_match_candidates(known_accounts)).step]
    /\ pc' = "matched"
    /\ UNCHANGED <<text, accounts, known_accounts, http, stdout, stderr, args_json, state_file, alerts>>

NextResolve == Resolve

SpecResolve == InitResolve /\ [][NextResolve]_vars

(***************************************************************************)
(* detect_activity_type on its own: every text within the bounds.          *)
(***************************************************************************)
ClassifyPhrases == {<<"c","a","l","l","e","d">>, <<"p","h","o","n","e"," ","c","a","l","l">>, <<"e","m","a","i","l">>, <<"m","e","t">>, <<"z","o","o","m">>,
                    <<"s","e","n","t"," ","a"," ","n","o","t","e">>, <<"h","e","a","d","s"," ","u","p">>, <<"a","s","d","f">>}

InitClassify ==
    /\ pc = "detect_activity_type"
    /\ text \in TextsOf(ClassifyPhrases, MaxPhrases)
                \cup {<<"I"," ","c","a","l","l","e","d"," ","t","h","e"," ","c","l","i","e","n","t"," ","t","h","i","s"," ","m","o","r","n","i","n","g">>, <<"s","e","n","t"," ","a","n"," ","e","m","a","i","l"," ","t","o"," ","p","r","o","c","u","r","e","m","e","n","t">>,
                      <<"j","u","s","t"," ","a"," ","q","u","i","c","k"," ","h","e","a","d","s"," ","u","p">>, <<"a","s","d","f"," ","q","w","e","r","t","y">>}
    /\ known_accounts = << >>
    /\ accounts = << >>
    /\ result = NoResult
    /\ http = << >>
    /\ stdout = << >>
    /\ stderr = << >>
    /\ args_json = "unread"
    /\ state_file = {}
    /\ alerts = << >>

\* detect_activity_type(text)
Classify ==
    /\ pc = "detect_activity_type"
    /\ result' = [activity_type |-> detect_activity_type(text)]
    /\ pc' = "detected"
    /\ UNCHANGED <<text, accounts, known_accounts, http, stdout, stderr, args_json, state_file, alerts>>

NextClassify == Classify

SpecClassify == InitClassify /\ [][NextClassify]_vars

(***************************************************************************)
(* build_summary on its own: every text within the bounds.                 *)
(***************************************************************************)
\* The phrases of the texts; the empty phrase leaves a space at the side of
\* the text it is joined into.
SummaryPhrases == {<< >>, <<"I">>, <<"I"," ","c","a","l","l","e","d">>, <<"c","a","l","l","e","d">>, <<"j","u","s","t">>, <<"l","o","g"," ","a"," ","c","a","l","l">>, <<"H","i">>,
                   <<"B","o","b"," ","a","b","o","u","t"," ","t","h","e"," ","r","e","n","e","w","a","l">>}

InitSummary ==
    /\ pc = "build_summary"
    /\ text \in TextsOf(SummaryPhrases, MaxPhrases) \cup {<<"I"," ","h","a","d"," ","a"," ","g","r","e","a","t"," ","c","a","l","l">>}
    /\ known_accounts = << >>
    /\ accounts = << >>
    /\ result = NoResult
    /\ http = << >>
    /\ stdout = << >>
    /\ stderr = << >>
    /\ args_json = "unread"
    /\ state_file = {}
    /\ alerts = << >>

\* build_summary(text, account, contact, activity_type)
Summarise ==
    /\ pc = "build_summary"
    /\ result' = [summary |-> build_summary(text)]
    /\ pc' = "summarised"
    /\ UNCHANGED <<text, accounts, known_accounts, http, stdout, stderr, args_json, state_file, alerts>>

NextSummary == Summarise

SpecSummary == InitSummary /\ [][NextSummary]_vars

(***************************************************************************)
(* extract_contact_name on its own: every text within the bounds, with the *)
(* account that was resolved before.                                       *)
(***************************************************************************)
ExtractPhrases == {<<"m","e","t"," ","w","i","t","h"," ","J","o","h","n"," ","S","m","i","t","h">>, <<"a","t"," ","S","a","s","k","T","e","l">>, <<"t","a","l","k","e","d"," ","t","o"," ","t","h","e"," ","t","e","a","m">>,
                   <<"c","a","l","l","e","d"," ","M","o","n","d","a","y"," ","M","o","r","n","i","n","g">>, <<"e","m","a","i","l","e","d"," ","B","o","b">>, <<"a","n","d"," ","S","a","r","a","h"," ","L","e","e"," ","A","n","n"," ","M","a","r","i","e">>,
                   <<"w","i","t","h"," ","S","a","s","k","T","e","l"," ","B","o","b"," ","L","e","e">>, <<"t","o">>, <<"A","l"," ","G","r","e","e","n">>}

\* The account names removed from the text: none, an account, a surname.
ExtractAccounts == {<< >>, <<"S","a","s","k","T","e","l">>, <<"S","m","i","t","h">>}

InitExtract ==
    /\ pc = "extract_contact_name"
    /\ text \in TextsOf(ExtractPhrases, MaxPhrases)
    /\ known_accounts = << >>
    /\ accounts = << >>
    /\ \E account \in ExtractAccounts : result = [account |-> account]
    /\ http = << >>
    /\ stdout = << >>
    /\ stderr = << >>
    /\ args_json = "unread"
    /\ state_file = {}
    /\ alerts = << >>

\* contact = extract_contact_name(text, account)
Extract ==
    /\ pc = "extract_contact_name"
    /\ result' = [account |-> result.account,
                  contact |-> extract_contact_name(text, result.account)]
    /\ pc' = "extracted"
    /\ UNCHANGED <<text, accounts, known_accounts, http, stdout, stderr, args_json, state_file, alerts>>

NextExtract == Extract

SpecExtract == InitExtract /\ [][NextExtract]_vars

(***************************************************************************)
(* match_account over directories that may hold the empty name, which      *)
(* fetch_known_accounts takes from the backup key "xits_acct_".            *)
(***************************************************************************)
LadderPhrases == {<< >>, <<"a","t"," ">>, <<"S","a","s","k","T","e","l">>, <<"s","a","s","k","a","t","e","l">>, <<"r","e","g","i","n","a">>, <<"x","y","z">>}

LadderAccounts == {<< >>, <<"S","a","s","k","T","e","l">>, <<"C","i","t","y"," ","o","f"," ","R","e","g","i","n","a">>}

InitLadder ==
    /\ pc = "match_account"
    /\ text \in TextsOf(LadderPhrases, MaxPhrases)
    /\ known_accounts \in SeqsUpTo(LadderAccounts, MaxAccounts)
    /\ accounts = << >>
    /\ result = NoResult
    /\ http = << >>
    /\ stdout = << >>
    /\ stderr = << >>
    /\ args_json = "unread"
    /\ state_file = {}
    /\ alerts = << >>

SpecLadder == InitLadder /\ [][NextResolve]_vars

(***************************************************************************)
(* build_match_candidates on its own: every directory within the bounds.   *)
(***************************************************************************)
IndexAccounts == {<<"C","i","t","y"," ","o","f"," ","R","e","g","i","n","a">>, <<"S","G","I"," ","C","a","n","a","d","a"," ","(","R","e","g","i","n","a",")">>, <<"s","g","i"," ","c","a","n","a","d","a">>, <<"R","e","g","i","n","a">>,
                  <<"R","e","g","i","n","a"," ","G","e","n","e","r","a","l"," ","H","o","s","p","i","t","a","l">>, <<"R","G","H">>, <<"S","a","s","k","T","e","l">>, <<"A","c","m","e"," ","(","W","e","s","t",")"," ","L","t","d">>}

InitIndex ==
    /\ pc = "build_match_candidates"
    /\ text = << >>
    /\ known_accounts \in SeqsUpTo(IndexAccounts, MaxAccounts)
    /\ accounts = << >>
    /\ result = NoResult
    /\ http = << >>
    /\ stdout = << >>
    /\ stderr = << >>
    /\ args_json = "unread"
    /\ state_file = {}
    /\ alerts = << >>

\* candidates = build_match_candidates(known_accounts)
Index ==
    /\ pc = "build_match_candidates"
    /\ result' = [candidates |-> build_match_candidates(known_accounts)]
    /\ pc' = "indexed"
    /\ UNCHANGED <<text, accounts, known_accounts, http, stdout, stderr, args_json, state_file, alerts>>

NextIndex == Index

SpecIndex == InitIndex /\ [][NextIndex]_vars

(***************************************************************************)
(* match_account over texts without cue words, which step 3 decides.       *)
(***************************************************************************)
WindowPhrases == {<< >>, <<"x"," ","c","g","i">>, <<"s","a","s","k","a","t","e","l">>, <<"r","e","g","i","n","a">>, <<"s","a","s","k","t","e","l","l">>, <<"x">>}

WindowAccounts == {<<"S","a","s","k","T","e","l">>, <<"C","G","I">>, <<"C","i","t","y"," ","o","f"," ","R","e","g","i","n","a">>}

InitWindows ==
    /\ pc = "match_account"
    /\ text \in TextsOf(WindowPhrases, MaxPhrases)
    /\ known_accounts \in SeqsUpTo(WindowAccounts, MaxAccounts)
    /\ accounts = << >>
    /\ result = NoResult
    /\ http = << >>
    /\ stdout = << >>
    /\ stderr = << >>
    /\ args_json = "unread"
    /\ state_file = {}
    /\ alerts = << >>

SpecWindows == InitWindows /\ [][NextResolve]_vars

(***************************************************************************)
(* deal-alerts.py: the alerts of a run and the record of what was sent      *)
(***************************************************************************)
\* The most deals /pipeline lists in one run.
MaxDeals == 2

\* The most runs of the job within the day.
MaxRuns == 2

\* date.today(), the one calendar day the runs belong to, as a day number.
today == 0

\* STAGE_CONFIG[stage]["maxDays"]
STAGE_CONFIG ==
    ("Prospecting" :> 42) @@ ("Discovery" :> 70) @@ ("Solution Design" :> 98)
    @@ ("Proposal" :> 70) @@ ("Negotiation" :> 98) @@ ("Verbal Commit" :> 42)
    @@ ("Closed Won" :> 0)

\* alert_key(alert_type, account): the first 12 digits of the md5 of
\* "<today>|<alert_type>|<account>"; different texts are taken to have
\* different digests.
alert_key(alert_type, account) == <<today, alert_type, account>>

\* A deal of /pipeline.
AlertDeal(account, stage, value) == [account |-> account, stage |-> stage, value |-> value]

\* get_full(account) of an account without data in /backup: {}
NoData == [days_in |-> 0, healthScore |-> << >>, threatLevel |-> "", meddpicc |-> << >>]

\* get_full(account) of an account in trouble; days_in is
\* days_since(stageEnteredDate), healthScore and meddpicc are << >> when absent.
Troubled == [days_in |-> 120, healthScore |-> <<10>>, threatLevel |-> "High", meddpicc |-> <<5, 3>>]

AlertAccounts == {"Acme", "Zenith"}

AlertDeals == {AlertDeal("Acme", "Closed Won", 60000), AlertDeal("Acme", "Negotiation", 60000),
               AlertDeal("Zenith", "Negotiation", 60000), AlertDeal("Zenith", "Fresh", 0)}

FullData == {NoData, Troubled}

\* sum(scores)
RECURSIVE Sum(_)
Sum(scores) == IF scores = << >> THEN 0 ELSE Head(scores) + Sum(Tail(scores))

\* round(sum(scores) / (len(scores) * 10) * 100) < 60, halves rounded to even
MeddpiccBelow60(scores) == 20 * Sum(scores) < 119 * Len(scores)

\* The keys of state["sent"].
SentKeys(sent) == {e.key : e \in sent}

\* alerts.append({...}) under "if key not in state['sent']"
NewAlert(alert_type, account, sent) ==
    IF alert_key(alert_type, account) \in SentKeys(sent) THEN << >>
    ELSE <<[key |-> alert_key(alert_type, account), type |-> alert_type, account |-> account]>>

Open(stage) == stage \notin {"Closed Won", "Closed Lost", "Fresh", ""}

\* One pass of check_alerts's loop: the alerts of one deal, in the order of
\* the five checks.
DealAlerts(deal, full, sent) ==
    (IF deal.stage = "Closed Won" THEN NewAlert("closed_won", deal.account, sent) ELSE << >>)
    \o (IF /\ deal.stage \in DOMAIN STAGE_CONFIG
           /\ deal.stage \notin {"Closed Won", "Closed Lost"}
           /\ STAGE_CONFIG[deal.stage] > 0
           /\ full.days_in > STAGE_CONFIG[deal.stage] + 7
        THEN NewAlert("stale", deal.account, sent) ELSE << >>)
    \o (IF /\ Open(deal.stage) /\ deal.value >= 50000
           /\ full.healthScore # << >> /\ full.healthScore[1] < 20
        THEN NewAlert("low_health", deal.account, sent) ELSE << >>)
    \o (IF full.threatLevel = "High" /\ Open(deal.stage)
        THEN NewAlert("high_threat", deal.account, sent) ELSE << >>)
    \o (IF /\ deal.stage \in {"Negotiation", "Verbal Commit"}
           /\ full.meddpicc # << >> /\ MeddpiccBelow60(full.meddpicc)
        THEN NewAlert("meddpicc_gap", deal.account, sent) ELSE << >>)

\* check_alerts(): the alerts of every deal, in the order of the deals;
\* state["sent"] is as load_state read it for the whole loop.
check_alerts(deals, full_accounts, sent) ==
    Flatten([d \in 1..Len(deals) |-> DealAlerts(deals[d], full_accounts[deals[d].account], sent)])

\* state["sent"][a["key"]] = {...} for every alert, a key holding its last entry
MarkSent(sent, new) ==
    {e \in sent : \A i \in 1..Len(new) : new[i].key # e.key}
    \cup {[key |-> new[i].key, type |-> new[i].type, account |-> new[i].account, sent_at |-> today] :
            i \in {i \in 1..Len(new) : \A j \in (i + 1)..Len(new) : new[j].key # new[i].key}}

\* The entries left after those sent more than 7 days ago are deleted.
Pruned(sent) == {e \in sent : ~(today - e.sent_at > 7)}

InitAlerts ==
    /\ pc = "check_alerts"
    /\ text = << >>
    /\ known_accounts = << >>
    /\ accounts = << >>
    /\ result = NoResult
    /\ http = << >>
    /\ stdout = << >>
    /\ stderr = << >>
    /\ args_json = "unread"
    /\ state_file = {}
    /\ alerts = << >>

\* alerts, state = check_alerts(), on what /pipeline and /backup hold at the
\* time of the run and the state file as the run before left it
CheckAlerts ==
    /\ pc = "check_alerts"
    /\ Len(alerts) < MaxRuns
    /\ \E deals \in SeqsUpTo(AlertDeals, MaxDeals) : \E full_accounts \in [AlertAccounts -> FullData] :
          alerts' = Append(alerts, check_alerts(deals, full_accounts, state_file))
    /\ pc' = "main"
    /\ UNCHANGED <<text, accounts, known_accounts, result, http, stdout, stderr, args_json, state_file>>

\* The rest of main: nothing is saved when there is no alert or when
\* text_to_speech exits or raises; otherwise the alerts are marked as sent,
\* the old entries pruned and the state saved.
SendAndRecord ==
    /\ pc = "main"
    /\ \E speech \in {"saved", "exits"} :
          state_file' = IF alerts[Len(alerts)] = << >> \/ speech = "exits" THEN state_file
                        ELSE Pruned(MarkSent(state_file, alerts[Len(alerts)]))
    /\ pc' = "check_alerts"
    /\ UNCHANGED <<text, accounts, known_accounts, result, http, stdout, stderr, args_json, alerts>>

NextAlerts == CheckAlerts \/ SendAndRecord

SpecAlerts == InitAlerts /\ [][NextAlerts]_vars

(***************************************************************************)
(* Properties of a run                                                     *)
(***************************************************************************)
\* The positions in http of the requests sent to an endpoint.
Sent(request) == {i \in 1..Len(http) : http[i].request = request}

\* What the run's request to an endpoint came to.
OutcomeOf(request) == http[CHOOSE i \in Sent(request) : TRUE].outcome

Range(s) == {s[i] : i \in 1..Len(s)}

LowerRange(s) == {lower(s[i]) : i \in 1..Len(s)}

\* fetch_known_accounts has returned.
Fetched == pc \notin {"fetch_pipeline", "fetch_backup", "merge_fallback"}

\* process_transcription has assembled the record.
Assembled == result # NoResult

\* C1: whenever account resolution yields the empty string, the record has
\* account "", matched false and error "account_not_matched", the run goes
\* straight to its return, and no POST /notes is sent at any point of the run.
C1_UnmatchedNeverPosts ==
    (Assembled /\ result.account = << >>) =>
        /\ result.matched = FALSE
        /\ result.error = "account_not_matched"
        /\ result.posted = "unset"
        /\ pc \in {"return", "done"}
        /\ Sent("POST /notes") = {}

\* C1, its case: an unmatched run has come to its end.
C1_Witness == pc = "done" /\ Assembled /\ result.account = << >>

\* C2: whenever account resolution yields a name, the record has matched
\* true, exactly one POST /notes is sent, and, once it has come back, posted
\* is true exactly when it came back as a response of status 200; whatever
\* it came to, the run goes on to return the record.
C2_PostedIffStatus200 ==
    (Assembled /\ result.account # << >>) =>
        /\ result.matched = TRUE
        /\ pc \in {"post", "return", "done"}
        /\ pc = "post" => Sent("POST /notes") = {}
        /\ pc # "post" =>
            /\ Cardinality(Sent("POST /notes")) = 1
            /\ result.posted = (/\ OutcomeOf("POST /notes").kind = "response"
                                /\ OutcomeOf("POST /notes").status = 200)

\* C2, its case: a matched run has returned after a post that came back with
\* a status other than 200.
C2_Witness ==
    /\ pc = "done" /\ Assembled /\ result.account # << >>
    /\ Sent("POST /notes") # {}
    /\ OutcomeOf("POST /notes").kind = "response"
    /\ OutcomeOf("POST /notes").status = 201
    /\ result.posted = FALSE

\* C3: whatever the three proxy calls come to, the run eventually ends
\* having assembled a record; no failure of a call stops it before.
C3_RunReturnsRecord == <>(pc = "done" /\ Assembled)

\* C3, its case: a run has ended although all three calls failed, each in a
\* different way.
C3_Witness ==
    /\ pc = "done" /\ Assembled
    /\ Sent("GET /pipeline") # {} /\ OutcomeOf("GET /pipeline").kind = "Timeout"
    /\ Sent("GET /backup") # {} /\ OutcomeOf("GET /backup").kind = "response"
    /\ OutcomeOf("GET /backup").body.shape = "not_json"
    /\ Sent("POST /notes") # {} /\ OutcomeOf("POST /notes").kind = "ConnectionError"

\* The names the loops took from the two fetched sources.
PipelineOffer == IF Sent("GET /pipeline") = {} THEN << >>
                 ELSE PipelineNames(OutcomeOf("GET /pipeline"))

BackupOffer == IF Sent("GET /backup") = {} THEN << >>
               ELSE BackupNames(OutcomeOf("GET /backup"))

\* C8: the merged directory holds no two names that are equal ignoring case;
\* it holds every name of the hardcoded list as written there; a pipeline
\* name that the hardcoded list does not have is held in a casing the
\* pipeline gave; a backup name that neither has is held in a casing the
\* backup gave.
C8_DirectoryPrecedence ==
    Fetched =>
        /\ Cardinality(LowerRange(known_accounts)) = Len(known_accounts)
        /\ Range(fallback) \subseteq Range(known_accounts)
        /\ \A p \in Range(PipelineOffer) :
               lower(p) \notin LowerRange(fallback) =>
                   \E q \in Range(PipelineOffer) :
                       lower(q) = lower(p) /\ q \in Range(known_accounts)
        /\ \A b \in Range(BackupOffer) :
               lower(b) \notin LowerRange(fallback) \cup LowerRange(PipelineOffer) =>
                   \E c \in Range(BackupOffer) :
                       lower(c) = lower(b) /\ c \in Range(known_accounts)

\* C8, its case: the pipeline and the backup gave the same name in different
\* casings, and the directory holds the pipeline's.
C8_Witness ==
    /\ Fetched
    /\ <<"Z","e","p","h","y","r"," ","L","a","b","s">> \in Range(PipelineOffer)
    /\ <<"z","e","p","h","y","r"," ","l","a","b","s">> \in Range(BackupOffer)
    /\ <<"Z","e","p","h","y","r"," ","L","a","b","s">> \in Range(known_accounts)
    /\ <<"z","e","p","h","y","r"," ","l","a","b","s">> \notin Range(known_accounts)

\* A fetch failed: the proxy was unreachable, the call timed out, or the
\* response had a status outside 2xx.
FetchFailed(outcome) == outcome.kind # "response" \/ outcome.status \notin 200..299

\* The names, lowercased, of a source whose fetch did not fail.
Contribution(request, offer) ==
    IF Sent(request) = {} \/ FetchFailed(OutcomeOf(request)) THEN {} ELSE LowerRange(offer)

\* C9: a source whose fetch failed contributes no name: every name of the
\* directory is one of the hardcoded list or of a source whose fetch did not
\* fail, and the directory holds every name of the hardcoded list.
C9_FailedFetchContributesNothing ==
    Fetched =>
        /\ Range(fallback) \subseteq Range(known_accounts)
        /\ LowerRange(known_accounts) \subseteq
               LowerRange(fallback) \cup Contribution("GET /pipeline", PipelineOffer)
                                    \cup Contribution("GET /backup", BackupOffer)

\* A call failed: a fetch as above or by a body that is not the expected
\* JSON; a post by anything but a response of status 200.
CallFailed(call) ==
    IF call.request = "POST /notes"
    THEN ~(call.outcome.kind = "response" /\ call.outcome.status = 200)
    ELSE FetchFailed(call.outcome) \/ Raises(call.outcome)

\* C10: when the run ends, stderr holds a warning for every call that failed.
C10_EveryFailureWarned ==
    pc = "done" => Len(stderr) >= Cardinality({i \in 1..Len(http) : CallFailed(http[i])})

(***************************************************************************)
(* Properties of match_account                                             *)
(***************************************************************************)
Resolved == pc = "matched"

\* The keys build_match_candidates derives from one name.
KeysOf(name) == {CandidateEntries(name)[e][1] : e \in 1..Len(CandidateEntries(name))}

\* The name occurs verbatim in the text, compared ignoring case.
OccursVerbatim(name) == Contains(lower(name), lower(text))

\* C4 as stated: a directory name of length >= 4 that occurs verbatim in the
\* text is the account returned, whatever else occurs in the text.
C4_VerbatimNameReturned ==
    Resolved =>
        \A i \in 1..Len(known_accounts) :
            (Len(known_accounts[i]) >= 4 /\ OccursVerbatim(known_accounts[i]))
                => result.account = known_accounts[i]

\* Another account of the directory has a key, at least as long as the name,
\* that occurs in the lowercased text.
Rivalled(name) ==
    \E j \in 1..Len(known_accounts) :
        /\ known_accounts[j] # name
        /\ \E k \in KeysOf(known_accounts[j]) :
               Len(k) >= Len(name) /\ Contains(k, lower(text))

\* C4: a directory name of length >= 4 that occurs verbatim in the text is
\* the account returned, provided no key of another account that is at least
\* as long as the name occurs in the text too.
C4_VerbatimNameUnrivalled ==
    Resolved =>
        \A i \in 1..Len(known_accounts) :
            (/\ Len(known_accounts[i]) >= 4
             /\ OccursVerbatim(known_accounts[i])
             /\ ~Rivalled(known_accounts[i]))
                => result.account = known_accounts[i]

\* C4, its case: the name returned occurs verbatim next to a shorter key of
\* another account.
C4_Witness ==
    /\ Resolved
    /\ \E i, j \in 1..Len(known_accounts) :
        /\ Len(known_accounts[i]) >= 4
        /\ OccursVerbatim(known_accounts[i])
        /\ ~Rivalled(known_accounts[i])
        /\ known_accounts[j] # known_accounts[i]
        /\ \E k \in KeysOf(known_accounts[j]) : Len(k) >= 4 /\ Contains(k, lower(text))
        /\ result.account = known_accounts[i]

\* C5: an account whose capitals make an acronym of length >= 2 that no
\* other account of the directory has is the account returned for a text
\* that holds the acronym as a token of its own.
C5_AcronymResolves ==
    Resolved =>
        \A i \in 1..Len(known_accounts) :
            (/\ Len(Abbreviation(known_accounts[i])) >= 2
             /\ \A j \in 1..Len(known_accounts) :
                    known_accounts[j] # known_accounts[i] =>
                        Abbreviation(known_accounts[j]) # Abbreviation(known_accounts[i])
             /\ Abbreviation(known_accounts[i]) \in Range(split(text)))
                => result.account = known_accounts[i]

\* The positions, in insertion order, of the keys of length >= 4 that occur
\* in the lowercased text.
Occurring(keys) == {i \in 1..Len(keys) : Len(keys[i]) >= 4 /\ Contains(keys[i], lower(text))}

\* The account of the longest occurring key, of equally long ones the first
\* inserted.
LongestOccurring(candidates, keys, occ) ==
    candidates[CHOOSE i \in occ :
                  /\ \A j \in occ : Len(keys[j]) <= Len(keys[i])
                  /\ \A j \in occ : j < i => Len(keys[j]) < Len(keys[i])][2]

\* C6: when a key of length >= 4 occurs in the lowercased text, step 1
\* returns, and it returns the account of the longest such key; steps 2 and
\* 3 return only when no such key occurs.
C6_LongestKeyFirst ==
    Resolved =>
        IF Occurring(DictKeys(build_match_candidates(known_accounts))) # {}
        THEN /\ result.step = 1
             /\ result.account =
                    LongestOccurring(build_match_candidates(known_accounts),
                                     DictKeys(build_match_candidates(known_accounts)),
                                     Occurring(DictKeys(build_match_candidates(known_accounts))))
        ELSE result.step # 1

\* C6, its case: keys of two accounts occur, one longer than the other, and
\* the account of the longer one is returned by step 1.
C6_Witness ==
    /\ Resolved
    /\ result.step = 1
    /\ \E i, j \in 1..Len(known_accounts) :
        /\ known_accounts[i] # known_accounts[j]
        /\ OccursVerbatim(known_accounts[i])
        /\ OccursVerbatim(known_accounts[j])
        /\ Len(known_accounts[j]) >= 4
        /\ Len(known_accounts[j]) < Len(known_accounts[i])
        /\ result.account = known_accounts[i]

(***************************************************************************)
(* Properties of detect_activity_type                                      *)
(***************************************************************************)
Classified == pc = "detected"

\* C7: the type returned is one of call, email, meeting, note: the type
\* with the highest score, of equal highest scores the first declared, and
\* note when every score is zero.
C7_HighestScoreFirstDeclared ==
    Classified =>
        /\ result.activity_type \in {"call", "email", "meeting", "note"}
        /\ IF \A t \in 1..Len(Scores(text)) : Scores(text)[t] = 0
           THEN result.activity_type = "note"
           ELSE \E t \in 1..Len(Scores(text)) :
                    /\ result.activity_type = ACTIVITY_PATTERNS[t].type
                    /\ \A u \in 1..Len(Scores(text)) : Scores(text)[u] <= Scores(text)[t]
                    /\ \A u \in 1..(t - 1) : Scores(text)[u] < Scores(text)[t]

\* C7, its case: two types share the highest score, which is not zero, and
\* the first declared of them is returned.
C7_Witness ==
    /\ Classified
    /\ \E t, u \in 1..Len(Scores(text)) :
        /\ t < u
        /\ Scores(text)[t] > 0
        /\ Scores(text)[t] = Scores(text)[u]
        /\ \A v \in 1..Len(Scores(text)) : Scores(text)[v] <= Scores(text)[t]
        /\ \A v \in 1..(t - 1) : Scores(text)[v] < Scores(text)[t]
        /\ result.activity_type = ACTIVITY_PATTERNS[t].type

(***************************************************************************)
(* Properties of build_summary                                             *)
(***************************************************************************)
\* build_summary has returned.
Summarised == pc = "summarised"

\* The filler openers and the activity-verb openers, as the texts spell them.
FillerOpeners == {<<"i"," ">>, <<"j","u","s","t"," ">>, <<"h","e","y"," ">>, <<"l","o","g"," ","a"," ","c","a","l","l"," ">>, <<"n","o","t","e"," ">>, <<"u","p","d","a","t","e"," ">>}

VerbOpeners == {<<"c","a","l","l","e","d"," ">>, <<"e","m","a","i","l","e","d"," ">>, <<"m","e","t"," ","w","i","t","h"," ">>, <<"h","a","d"," ","a"," ","m","e","e","t","i","n","g"," ","w","i","t","h"," ">>,
                <<"s","p","o","k","e"," ","t","o"," ">>, <<"s","p","o","k","e"," ","w","i","t","h"," ">>, <<"t","a","l","k","e","d"," ","t","o"," ">>, <<"t","a","l","k","e","d"," ","w","i","t","h"," ">>}

\* The openers of a set that s starts with, whatever its case.
OpenersAt(s, openers) == {o \in openers : startswith(lower(s), o)}

\* s without the opener of the set it starts with, and stripped; s when it
\* starts with none.
WithoutOpener(s, openers) ==
    IF OpenersAt(s, openers) = {} THEN s
    ELSE strip(Drop(s, Len(CHOOSE o \in OpenersAt(s, openers) : TRUE) + 1))

\* s with its first character upper-cased.
UpperFirst(s) == IF s = << >> THEN s ELSE <<UpperChar(s[1])>> \o Tail(s)

\* The result for a text whose remainder is rem: a remainder shorter than 10
\* gives way to whole.
ResultOf(rem, whole) == UpperFirst(IF Len(rem) < 10 THEN whole ELSE rem)

\* C11 as stated: only the first matching opener, filler or activity verb,
\* is removed; a text that begins with a filler opener followed by an
\* activity-verb opener loses the filler opener only.
C11_OnlyFirstOpenerStripped ==
    Summarised =>
        result.summary = ResultOf(WithoutOpener(strip(text), FillerOpeners \cup VerbOpeners),
                                  strip(text))

\* C11 as amended: at most one filler opener is removed and then, from what
\* remains, at most one activity-verb opener; a second opener of the same
\* kind stays.
C11_OneOpenerOfEachKind ==
    Summarised =>
        result.summary = ResultOf(WithoutOpener(WithoutOpener(strip(text), FillerOpeners),
                                                VerbOpeners),
                                  strip(text))

\* C11, its case: "I called Bob about the renewal" has lost both "I " and
\* "called ".
C11_Witness ==
    /\ Summarised
    /\ text = <<"I"," ","c","a","l","l","e","d"," ","B","o","b"," ","a","b","o","u","t"," ","t","h","e"," ","r","e","n","e","w","a","l">>
    /\ result.summary = <<"B","o","b"," ","a","b","o","u","t"," ","t","h","e"," ","r","e","n","e","w","a","l">>

\* The text that remains after the preambles are removed.
Remaining == WithoutOpener(WithoutOpener(strip(text), FillerOpeners), VerbOpeners)

\* C12 as stated: a remainder shorter than 10 characters gives the original
\* untouched text with its first character upper-cased, a longer one gives
\* the remainder with its first character upper-cased, and the result is
\* never empty for a non-empty text.
C12_ShortFallsBackToOriginal ==
    Summarised =>
        /\ result.summary = ResultOf(Remaining, text)
        /\ text # << >> => result.summary # << >>

\* C12 as amended: the fallback is the text without its surrounding
\* whitespace, and the result is not empty for a text that holds a
\* character other than whitespace.
C12_ShortFallsBackToStripped ==
    Summarised =>
        /\ result.summary = ResultOf(Remaining, strip(text))
        /\ strip(text) # << >> => result.summary # << >>

\* C12, its case: a remainder of fewer than 10 characters ("called", after
\* "I " is removed) gave way to the text, capitalised, and a text with a
\* leading space lost it.
C12_Witness ==
    /\ Summarised
    /\ \/ text = <<"I"," ","c","a","l","l","e","d">> /\ result.summary = <<"I"," ","c","a","l","l","e","d">>
       \/ text = <<" ","H","i">> /\ result.summary = <<"H","i">>

(***************************************************************************)
(* Properties of extract_contact_name                                      *)
(***************************************************************************)
\* extract_contact_name has returned.
Extracted == pc = "extracted"

\* A capitalized word: an uppercase letter, then lowercase letters.
IsNameWord(w) == /\ Len(w) >= 2
                 /\ IsUpper(w[1])
                 /\ \A i \in 2..Len(w) : IsLower(w[i])

\* The cue phrases.
CuePhrases == {<<"w","i","t","h">>, <<"t","o">>, <<"f","r","o","m">>, <<"a","n","d">>, <<"m","e","t">>, <<"c","a","l","l","e","d">>, <<"e","m","a","i","l","e","d">>,
               <<"s","p","o","k","e"," ","t","o">>, <<"t","a","l","k","e","d"," ","t","o">>, <<"s","p","o","k","e"," ","w","i","t","h">>, <<"t","a","l","k","e","d"," ","w","i","t","h">>}

\* The text with the literal occurrences of the account name removed.
WithoutAccount == IF result.account = << >> THEN text ELSE replace(text, result.account, << >>)

\* name stands in s right after a cue phrase and the whitespace behind it.
FollowsCue(s, name) ==
    \E cue \in CuePhrases : \E i \in 1..Len(s) :
        /\ MatchAt(s, i, cue)
        /\ SpaceRun(s, i + Len(cue)) >= 1
        /\ MatchAt(s, i + Len(cue) + SpaceRun(s, i + Len(cue)), name)

\* C13: the contact returned is empty, or it is 2 to 3 capitalized words
\* that stand right after a cue phrase in the text without the account
\* name, the first of them not in the stoplist; a single word and a name
\* that starts with a stoplist word are never returned.
C13_ContactIsCuedName ==
    Extracted =>
        \/ result.contact = << >>
        \/ LET words == split(result.contact)
           IN /\ Len(words) \in 2..3
              /\ \A k \in 1..Len(words) : IsNameWord(words[k])
              /\ words[1] \notin skip_words
              /\ FollowsCue(WithoutAccount, result.contact)

\* C13, its case: "John Smith" is taken from "met with John Smith at
\* SaskTel" once the account SaskTel is removed.
C13_Witness ==
    /\ Extracted
    /\ text = <<"m","e","t"," ","w","i","t","h"," ","J","o","h","n"," ","S","m","i","t","h"," ","a","t"," ","S","a","s","k","T","e","l">>
    /\ result.account = <<"S","a","s","k","T","e","l">>
    /\ result.contact = <<"J","o","h","n"," ","S","m","i","t","h">>

(***************************************************************************)
(* Properties of match_account's result                                    *)
(***************************************************************************)
\* C15: the account returned is the empty string or a name of the
\* directory, and it is the empty string exactly when none of the three
\* steps succeeds.
C15_EmptyIffNoStep ==
    Resolved =>
        /\ result.account = << >> \/ result.account \in Range(known_accounts)
        /\ result.account = << >> <=> result.step = 0

(***************************************************************************)
(* Properties of the backup's entries                                      *)
(***************************************************************************)
\* The account entries of the backup that answered with status 200 and an
\* object: the keys that start with "xits_acct_".
AccountEntries ==
    IF Sent("GET /backup") = {} THEN {}
    ELSE LET o == OutcomeOf("GET /backup")
         IN IF o.kind = "response" /\ o.status = 200 /\ o.body.shape = "object"
            THEN {o.body.items[i] : i \in {j \in 1..Len(o.body.items) :
                      /\ o.body.items[j].shape = "key"
                      /\ startswith(o.body.items[j].name, <<"x","i","t","s","_","a","c","c","t","_">>)}}
            ELSE {}

\* The account name of an entry, lowercased.
EntryName(k) == lower(strip(replace(replace(k.name, <<"x","i","t","s","_","a","c","c","t","_">>, << >>), <<"_">>, <<" ">>)))

\* C16: a backup entry whose blob cannot be decoded contributes no account
\* name, so its name is in the directory only when another source or entry
\* gives it, while the entries that can be decoded do contribute theirs.
C16_UndecodableEntrySkipped ==
    Fetched =>
        /\ \A k \in AccountEntries :
              (k.blob = "undecodable" /\ EntryName(k) \in LowerRange(known_accounts)) =>
                  EntryName(k) \in LowerRange(fallback) \cup LowerRange(PipelineOffer)
                      \cup {EntryName(j) : j \in {e \in AccountEntries : e.blob = "json"}}
        /\ \A k \in AccountEntries :
              k.blob = "json" => EntryName(k) \in LowerRange(known_accounts)

(***************************************************************************)
(* Properties of the output and of the calls of a run                      *)
(***************************************************************************)
\* The human-readable lines: the confirmation and the diagnostic.
HumanReadable == {"confirmation", "confirmation (note: cal-proxy sync pending)", "diagnostic"}

\* C17: the flag selects the form of the output: a run without --json
\* prints the human-readable line and no JSON, and a run with --json prints
\* the JSON dump of the record instead of the human-readable line.
C17_FlagSelectsOutput ==
    pc = "done" =>
        /\ args_json = "false" => (Len(stdout) = 1 /\ stdout[1] \in HumanReadable)
        /\ args_json = "true" => stdout = <<"json">>

\* C18: no call is repeated and the order is fixed: each of GET /pipeline
\* and GET /backup is sent exactly once by the time the directory is built,
\* whether it succeeds or fails; POST /notes is sent at most once, and by
\* the end of the run exactly once if and only if an account was matched;
\* the POST comes after both GETs.
C18_EachCallOnceInOrder ==
    /\ \A request \in {"GET /pipeline", "GET /backup", "POST /notes"} :
          Cardinality(Sent(request)) <= 1
    /\ \A i \in 1..Len(http) : http[i].request \in {"GET /pipeline", "GET /backup", "POST /notes"}
    /\ Fetched => (Sent("GET /pipeline") = {1} /\ Sent("GET /backup") = {2})
    /\ Sent("POST /notes") # {} => (Fetched /\ Sent("POST /notes") = {3})
    /\ pc = "done" => (Sent("POST /notes") # {} <=> result.account # << >>)

\* C18, its case: both fetches failed, each was sent once, and the one POST
\* came after them.
C18_Witness ==
    /\ pc = "done"
    /\ Len(http) = 3
    /\ http[1].request = "GET /pipeline" /\ FetchFailed(http[1].outcome)
    /\ http[2].request = "GET /backup" /\ FetchFailed(http[2].outcome)
    /\ http[3].request = "POST /notes"
    /\ result.account # << >>

(***************************************************************************)
(* Properties of the candidate index                                       *)
(***************************************************************************)
\* build_match_candidates has returned.
Indexed == pc = "indexed"

\* The keys derived from a name: its lowercase full name; the lowercase
\* name without its parenthetical when that differs; the acronym of its
\* uppercase letters when it has at least 2; its lowercase first word when
\* that is longer than over.
DerivedKeys(name, over) ==
    LET base    == strip(StripParenthetical(name))
        acronym == SelectSeq(name, LAMBDA c : c \in UpperSet)
        words   == split(name)
    IN {lower(name)}
       \cup (IF lower(base) # lower(name) THEN {lower(base)} ELSE {})
       \cup (IF Len(acronym) >= 2 THEN {lower(acronym)} ELSE {})
       \cup (IF words # << >> /\ Len(words[1]) > over THEN {lower(words[1])} ELSE {})

\* The keys of the index that was built.
IndexKeys == {result.candidates[e][1] : e \in 1..Len(result.candidates)}

\* C19 as stated: the key set is the union of the keys derived from the
\* names, the first word being a key only when it is longer than 4.
C19_KeysFirstWordOver4 ==
    Indexed => IndexKeys = UNION {DerivedKeys(known_accounts[i], 4) : i \in 1..Len(known_accounts)}

\* C19 as amended: the first word is a key when it is longer than 3, so a
\* first word of exactly 4 characters is a key.
C19_KeysFirstWordOver3 ==
    Indexed => IndexKeys = UNION {DerivedKeys(known_accounts[i], 3) : i \in 1..Len(known_accounts)}

\* C19, its case: "City of Regina" gives its first word of 4 characters as
\* a key, "SGI Canada (Regina)" gives its name without the parenthetical
\* and its acronym but not its first word of 3.
C19_Witness ==
    /\ Indexed
    /\ known_accounts = <<<<"C","i","t","y"," ","o","f"," ","R","e","g","i","n","a">>, <<"S","G","I"," ","C","a","n","a","d","a"," ","(","R","e","g","i","n","a",")">>>>
    /\ {<<"c","i","t","y">>, <<"c","r">>, <<"s","g","i"," ","c","a","n","a","d","a">>, <<"s","g","i","c","r">>} \subseteq IndexKeys
    /\ <<"s","g","i">> \notin IndexKeys

\* The positions in the directory of the names a key is derived from.
Derivers(key) == {i \in 1..Len(known_accounts) : key \in DerivedKeys(known_accounts[i], 3)}

\* C20: every key is held once, and it maps to the name that comes last in
\* the directory among the names it is derived from, whatever kind of key
\* it is for each of them.
C20_LastDeriverHoldsKey ==
    Indexed =>
        /\ Cardinality(IndexKeys) = Len(result.candidates)
        /\ \A e \in 1..Len(result.candidates) :
              LET from == Derivers(result.candidates[e][1])
              IN /\ from # {}
                 /\ result.candidates[e][2] =
                        known_accounts[CHOOSE i \in from : \A j \in from : j <= i]

\* C20, its case: the first word of the later "Regina General Hospital"
\* has displaced the full name of the earlier "Regina".
C20_Witness ==
    /\ Indexed
    /\ known_accounts = <<<<"R","e","g","i","n","a">>, <<"R","e","g","i","n","a"," ","G","e","n","e","r","a","l"," ","H","o","s","p","i","t","a","l">>>>
    /\ <<<<"r","e","g","i","n","a">>, <<"R","e","g","i","n","a"," ","G","e","n","e","r","a","l"," ","H","o","s","p","i","t","a","l">>>> \in Range(result.candidates)
    /\ <<"R","e","g","i","n","a">> \notin Range(DictValues(result.candidates))

(***************************************************************************)
(* Properties of the fuzzy steps of match_account                          *)
(***************************************************************************)
\* The similarity of a key to a fragment, SequenceMatcher(None, key,
\* fragment).ratio(), as the fraction <<numerator, denominator>>; 1 when
\* both are empty.
Similarity(key, fragment) ==
    IF Len(key) + Len(fragment) = 0 THEN <<1, 1>>
    ELSE <<2 * matching_size(key, fragment), Len(key) + Len(fragment)>>

\* The fraction f is at least num/den.
AtLeast(f, num, den) == f[1] * den >= num * f[2]

\* The similarity of every key of the candidates to the fragment.
Similarities(keys, fragment) == [k \in Range(keys) |-> Similarity(k, fragment)]

\* The keys no other key is more similar than.
MostSimilar(sims) ==
    {k \in DOMAIN sims : \A q \in DOMAIN sims : sims[q][1] * sims[k][2] <= sims[k][1] * sims[q][2]}

\* Step 2 returned the name of a most similar key when one reaches 0.60, and
\* left the text to step 3 otherwise.
Step2Decides(candidates, sims) ==
    IF \E k \in DOMAIN sims : AtLeast(sims[k], 3, 5)
    THEN /\ result.step = 2
         /\ \E k \in MostSimilar(sims) : result.account = DictGet(candidates, k)
    ELSE result.step \in {0, 3}

Step2Over(candidates, frag) ==
    IF frag = << >> THEN result.step \in {0, 3}
    ELSE Step2Decides(candidates, Similarities(DictKeys(candidates), lower(frag[1])))

\* C21: when step 1 fails and a fragment follows a cue word, match_account
\* returns the canonical name of the key most similar to the lowercased
\* fragment exactly when that similarity is at least 0.60; when it is lower,
\* or there is no fragment, step 2 returns nothing and step 3 is tried.
C21_Step2BestAtLeast60 ==
    (Resolved /\ result.step # 1) =>
        Step2Over(build_match_candidates(known_accounts), PrepFragment(text))

\* C21: a fragment whose most similar key, "city of regina", is at exactly
\* 0.60 gives that key's account by step 2.
C21_Witness ==
    /\ Resolved
    /\ text = <<"a","t"," "," ","r","e","g","i","n","a">>
    /\ known_accounts = <<<<"C","i","t","y"," ","o","f"," ","R","e","g","i","n","a">>>>
    /\ result.step = 2
    /\ result.account = <<"C","i","t","y"," ","o","f"," ","R","e","g","i","n","a">>

\* The windows of a text of so many words as <<size, first word>>: every
\* run of 4, 3 or 2 consecutive words.
WindowsOver(n) == {w \in {4, 3, 2} \X (1..n) : w[2] + w[1] - 1 <= n}

\* Window v is scanned before window w: the larger size first, and of one
\* size the one further left.
ScannedBefore(v, w) == v[1] > w[1] \/ (v[1] = w[1] /\ v[2] < w[2])

\* The lowercased words of a window, joined by single spaces.
WindowText(words, w) == lower(join(SubSeq(words, w[2], w[2] + w[1] - 1)))

\* The windows that have a key of similarity at least 0.65.
Accepting(keys, words) ==
    {w \in WindowsOver(Len(words)) :
        \E k \in Range(keys) : AtLeast(Similarity(k, WindowText(words, w)), 13, 20)}

\* Step 3 returned the name of a most similar key of the first accepting
\* window, and nothing when no window accepts.
Step3Decides(candidates, words, accepting) ==
    IF accepting = {} THEN result.step = 0 /\ result.account = << >>
    ELSE /\ result.step = 3
         /\ \E w \in accepting :
               /\ \A v \in accepting \ {w} : ScannedBefore(w, v)
               /\ \E k \in MostSimilar(Similarities(DictKeys(candidates), WindowText(words, w))) :
                     result.account = DictGet(candidates, k)

Step3Over(candidates, words) ==
    Step3Decides(candidates, words, Accepting(DictKeys(candidates), words))

\* C22: when steps 1 and 2 return nothing, the 4-word windows are scanned
\* left to right, then the 3-word and then the 2-word windows, and
\* match_account returns the canonical name of the most similar key of the
\* first window whose best similarity is at least 0.65, whatever a later
\* window would match; a size the text is too short for has no window.
C22_FirstAcceptingWindow ==
    (Resolved /\ result.step \notin {1, 2}) =>
        Step3Over(build_match_candidates(known_accounts), split(text))

\* C22: the 3-word window "x cgi saskatel" accepts "sasktel" at 14/21 and
\* gives SaskTel, though the later window "x cgi" is more similar, 3/4, to
\* the key "cgi" of another account.
C22_Witness ==
    /\ Resolved
    /\ text = <<"x"," ","c","g","i"," ","s","a","s","k","a","t","e","l">>
    /\ known_accounts = <<<<"S","a","s","k","T","e","l">>, <<"C","G","I">>>>
    /\ result.step = 3
    /\ result.account = <<"S","a","s","k","T","e","l">>
    /\ Similarity(<<"s","a","s","k","t","e","l">>, <<"x"," ","c","g","i"," ","s","a","s","k","a","t","e","l">>) = <<14, 21>>
    /\ Similarity(<<"c","g","i">>, <<"x"," ","c","g","i">>) = <<6, 8>>

(***************************************************************************)
(* Properties of the match extract_contact_name decides by                 *)
(***************************************************************************)
\* 1 to 3 capitalized words with whitespace between them and none around.
IsName(x) ==
    /\ x # << >> /\ x[1] # " " /\ x[Len(x)] # " "
    /\ Len(split(x)) \in 1..3
    /\ \A k \in 1..Len(split(x)) : IsNameWord(split(x)[k])

\* Where the name starts when a cue phrase stands at position i of s with
\* whitespace and then a capitalized word behind it; 0 when none does.
NameStart(s, i) ==
    LET starts == {i + Len(cue) + SpaceRun(s, i + Len(cue)) : cue \in
                      {cue \in CuePhrases : MatchAt(s, i, cue) /\ SpaceRun(s, i + Len(cue)) >= 1}}
        named  == {j \in starts : j + 1 <= Len(s) /\ IsUpper(s[j]) /\ IsLower(s[j + 1])}
    IN IF named = {} THEN 0 ELSE CHOOSE j \in named : TRUE

\* The longest name that starts at position j of s.
LongestName(s, j) ==
    LET ends == {e \in j..Len(s) : IsName(SubSeq(s, j, e))}
    IN SubSeq(s, j, CHOOSE e \in ends : \A f \in ends : f <= e)

\* The name passes the checks: at least 2 words, the first not in the stoplist.
PassesChecks(name) == Len(split(name)) >= 2 /\ split(name)[1] \notin skip_words

\* The contact is the name of the leftmost occurrence when that passes the
\* checks, and empty otherwise.
LeftmostDecides(s, occurrences) ==
    IF occurrences = {} THEN result.contact = << >>
    ELSE LET i == CHOOSE x \in occurrences : \A y \in occurrences : x <= y
         IN result.contact = IF PassesChecks(LongestName(s, NameStart(s, i)))
                             THEN LongestName(s, NameStart(s, i)) ELSE << >>

\* C23: the leftmost cue-plus-name match alone decides the contact: when it
\* fails the 2-word or the stoplist check the contact is empty, even when a
\* later occurrence in the same text would pass.
C23_LeftmostMatchDecides ==
    Extracted =>
        LeftmostDecides(WithoutAccount, {i \in 1..Len(WithoutAccount) : NameStart(WithoutAccount, i) > 0})

\* C23: "emailed Bob" is the leftmost match and has one word, so no contact
\* is returned although "with John Smith" follows and would pass.
C23_Witness ==
    /\ Extracted
    /\ text = <<"e","m","a","i","l","e","d"," ","B","o","b"," ","m","e","t"," ","w","i","t","h"," ","J","o","h","n"," ","S","m","i","t","h">>
    /\ result.account = << >>
    /\ result.contact = << >>
    /\ PassesChecks(LongestName(text, NameStart(text, 17)))

(***************************************************************************)
(* Properties of the deal-alert job                                        *)
(***************************************************************************)
\* The positions of a list of alerts that hold the key.
Holding(list, key) == {i \in 1..Len(list) : list[i].key = key}

\* C24: over the runs of one day, with the state file kept between them, a
\* key (alert type, account) is never twice in the list of one run, and a
\* key recorded as sent is in no list check_alerts returns afterwards.
C24_KeyAlertedOnce ==
    /\ \A r \in 1..Len(alerts) : \A i \in 1..Len(alerts[r]) :
          Cardinality(Holding(alerts[r], alerts[r][i].key)) = 1
    /\ pc = "main" =>
          \A i \in 1..Len(alerts[Len(alerts)]) :
              alerts[Len(alerts)][i].key \notin SentKeys(state_file)

=============================================================================
